---- MODULE Spec2Model ----
(***************************************************************************)
(* The metric/loss library of VideoPose3D (src/common/loss.py) as a state  *)
(* machine: a caller owns two arrays, predicted and target, calls one of   *)
(* the loss functions on them, may then apply a similarity transform to    *)
(* predicted and call the same function again.                             *)
(*                                                                         *)
(* Numbers are exact.  An array element is an extended rational            *)
(* [n |-> numerator, d |-> denominator]: d > 0 is a finite number in       *)
(* lowest terms, 1/0 is +Inf, -1/0 is -Inf and 0/0 is NaN, with the IEEE   *)
(* rules the floating-point code follows.  A Euclidean norm is a surd: a   *)
(* function from squarefree radicands m to rational coefficients q,        *)
(* standing for the sum of q * sqrt(m); square roots of distinct           *)
(* squarefree integers are linearly independent over the rationals, so two *)
(* surds are equal as reals iff they are equal as functions.               *)
(***************************************************************************)
EXTENDS Integers, Sequences, FiniteSets, TLC

\* ------------------------------------------------------------------ bounds

\* Coordinates of the caller's arrays are the integers -1..MaxCoord.
MaxCoord == 1
\* Weights passed to weighted_mpjpe are the integers 0..MaxWeight.
MaxWeight == 1
\* The caller rescales predicted by a factor in 1..MaxScale ...
MaxScale == 2
\* ... and translates it by an offset in 0..MaxShift.
MaxShift == 1
\* pose frames are a base pose scaled by 0..MaxPoseScale
MaxPoseScale == 2

\* The training run: the largest cfg.MODEL.EPOCHS and
\* cfg.LOGS.CHECKPOINT_FREQUENCY, the batches the labelled generator yields
\* per epoch and the chunks in one batch.
MaxEpochs == 3
MaxFrequency == 2
NumBatches == 2
batch_size == 1

\* Data preparation: the longest motion capture sequence, in frames.
MaxFrames == 2

\* Chunks of the generators: the latest first frame and the largest number
\* of frames of a chunk.
MaxStart == 2
MaxChunk == 2

\* The cameras of an animation.
MaxCameras == 2

\* Evaluation: the frames of the rendered sequence, cfg.TRAIN.NRUNS and the
\* errors evaluate2 reports, in mm.
MaxLength == 5
MaxRuns == 2
MaxError == 2

\* ------------------------------------------------------ extended rationals

Abs(x) == IF x < 0 THEN -x ELSE x
Sign(x) == IF x < 0 THEN -1 ELSE IF x > 0 THEN 1 ELSE 0

RECURSIVE GCD(_, _)
GCD(a, b) == IF b = 0 THEN a ELSE GCD(b, a % b)

\* n/d in lowest terms with a positive denominator; x/0 is an infinity or NaN.
Q(n, d) ==
    IF d = 0 THEN [n |-> Sign(n), d |-> 0]
    ELSE LET g == GCD(Abs(n), Abs(d))
         IN  [n |-> (Sign(d) * n) \div g, d |-> Abs(d) \div g]

NaN == [n |-> 0, d |-> 0]
Inf == [n |-> 1, d |-> 0]
Zero == Q(0, 1)
One == Q(1, 1)
IsNaN(x) == x.d = 0 /\ x.n = 0
IsFinite(x) == x.d # 0
IsZero(x) == x.d # 0 /\ x.n = 0
\* The floating point -0.0: a zero (sums and products take it as 0) whose
\* reciprocal is -Inf.
NegZero == [n |-> 0, d |-> -1]

RAdd(x, y) ==
    IF x.d = 0 /\ y.d = 0
    THEN (IF x.n = y.n THEN x ELSE NaN)
    ELSE Q(x.n * y.d + y.n * x.d, x.d * y.d)
RNeg(x) == [n |-> -x.n, d |-> x.d]
RSub(x, y) == RAdd(x, RNeg(y))
RMul(x, y) == Q(x.n * y.n, x.d * y.d)
RInv(y) ==
    IF y.d = 0 THEN (IF y.n = 0 THEN NaN ELSE Zero)
    ELSE Q(y.d, y.n)
RDiv(x, y) == RMul(x, RInv(y))

\* -------------------------------------------------------------------- surds

\* The largest k with k*k dividing r (r > 0).
RECURSIVE SquareRootPartFrom(_, _, _)
SquareRootPartFrom(r, k, best) ==
    IF k * k > r THEN best
    ELSE SquareRootPartFrom(r, k + 1, IF r % (k * k) = 0 THEN k ELSE best)
SquareRootPart(r) == SquareRootPartFrom(r, 1, 1)

SZero == [m \in {} |-> Zero]
SOf(q) == IF IsZero(q) THEN SZero ELSE (1 :> q)
SNaN == SOf(NaN)
SSpecial(a) == 1 \in DOMAIN a /\ a[1].d = 0
SCoef(a, m) == IF m \in DOMAIN a THEN a[m] ELSE Zero

\* sqrt(x) for a rational x >= 0 in lowest terms: with p = kp^2 * mp and
\* q = kq^2 * mq, sqrt(p/q) = kp * sqrt(mp * mq) / (kq * mq).
SSqrt(x) ==
    IF x.d = 0 THEN SOf(x)
    ELSE IF x.n = 0 THEN SZero
    ELSE LET kp == SquareRootPart(x.n)
             kq == SquareRootPart(x.d)
             mp == x.n \div (kp * kp)
             mq == x.d \div (kq * kq)
         IN  ((mp * mq) :> Q(kp, kq * mq))

SAdd(a, b) ==
    IF SSpecial(a) \/ SSpecial(b)
    THEN SOf(RAdd(IF SSpecial(a) THEN a[1] ELSE Zero,
                  IF SSpecial(b) THEN b[1] ELSE Zero))
    ELSE LET ms == {m \in DOMAIN a \cup DOMAIN b :
                        ~IsZero(RAdd(SCoef(a, m), SCoef(b, m)))}
         IN  [m \in ms |-> RAdd(SCoef(a, m), SCoef(b, m))]

\* The sign of a surd all of whose terms have the same sign (a norm has one term).
SSign(a) ==
    IF a = SZero THEN 0
    ELSE IF \A m \in DOMAIN a : a[m].n > 0 THEN 1
    ELSE IF \A m \in DOMAIN a : a[m].n < 0 THEN -1
    ELSE 0

\* q * a for a rational q.
SScale(q, a) ==
    IF SSpecial(a) THEN SOf(RMul(q, a[1]))
    ELSE IF q.d = 0 THEN SOf(RMul(q, Q(SSign(a), 1)))
    ELSE IF q.n = 0 THEN SZero
    ELSE [m \in DOMAIN a |-> RMul(q, a[m])]

\* ------------------------------------------------------------------ arrays

\* An array is [shape |-> <<d1, ..., dk>>, data |-> a function on its index
\* tuples]; indices count from 1.  A scalar has shape << >>.
RECURSIVE Idx(_)
Idx(s) ==
    IF s = << >> THEN {<< >>}
    ELSE {<<i>> \o r : i \in 1..Head(s), r \in Idx(Tail(s))}

\* The index tuples in row-major (C) order, the order of flattening and of
\* boolean-mask selection.
RECURSIVE IdxSeq(_)
IdxSeq(s) ==
    IF s = << >> THEN << << >> >>
    ELSE LET rest == IdxSeq(Tail(s))
             row(i) == [k \in 1..Len(rest) |-> <<i>> \o rest[k]]
             RECURSIVE upto(_)
             upto(i) == IF i = 0 THEN << >> ELSE upto(i - 1) \o row(i)
         IN  upto(Head(s))

\* A function tabulated once (f @@ << >> equals f), not re-evaluated at each
\* application.
Tabulated(f) == f @@ << >>

MkArray(s, F(_)) == [shape |-> s, data |-> Tabulated([i \in Idx(s) |-> F(i)])]
Scalar(v) == [shape |-> << >>, data |-> (<< >> :> v)]
ArraysOf(s, V) == {[shape |-> s, data |-> f] : f \in [Idx(s) -> V]}
Front(s) == SubSeq(s, 1, Len(s) - 1)
Max(a, b) == IF a >= b THEN a ELSE b

\* Broadcasting as numpy and torch do it: shapes are aligned at the right,
\* a missing or 1 dimension is stretched, any other difference is an error.
PadShape(s, n) == [i \in 1..n |-> IF i <= n - Len(s) THEN 1 ELSE s[i - (n - Len(s))]]
Broadcastable(s1, s2) ==
    LET n == Max(Len(s1), Len(s2))
    IN  \A i \in 1..n :
            \/ PadShape(s1, n)[i] = PadShape(s2, n)[i]
            \/ PadShape(s1, n)[i] = 1
            \/ PadShape(s2, n)[i] = 1
BroadcastShape(s1, s2) ==
    LET n == Max(Len(s1), Len(s2))
    IN  [i \in 1..n |-> IF PadShape(s1, n)[i] = 1 THEN PadShape(s2, n)[i]
                        ELSE PadShape(s1, n)[i]]
BroadcastIdx(i, s) ==
    [j \in 1..Len(s) |-> IF s[j] = 1 THEN 1 ELSE i[j + Len(i) - Len(s)]]

\* An elementwise binary operation (a * b, a - b, a / b) of two broadcastable arrays.
Elementwise(Op(_, _), A, B) ==
    IF A.shape = B.shape
    THEN [shape |-> A.shape,
          data |-> Tabulated([i \in DOMAIN A.data |-> Op(A.data[i], B.data[i])])]
    ELSE MkArray(BroadcastShape(A.shape, B.shape),
                 LAMBDA i : Op(A.data[BroadcastIdx(i, A.shape)],
                               B.data[BroadcastIdx(i, B.shape)]))

\* The sum of the entries of A along axis ax (counted from 1), keepdim=True.
SumAxisKeep(A, ax) ==
    LET at(i, k) == [i EXCEPT ![ax] = k]
        RECURSIVE upto(_, _)
        upto(i, k) == IF k = 0 THEN Zero ELSE RAdd(upto(i, k - 1), A.data[at(i, k)])
    IN  MkArray([A.shape EXCEPT ![ax] = 1], LAMBDA i : upto(i, A.shape[ax]))

\* mean(A, axis=ax, keepdims=True): the sum divided by the axis length (0/0 is NaN).
MeanAxisKeep(A, ax) ==
    LET s == SumAxisKeep(A, ax)
    IN  MkArray(s.shape, LAMBDA i : RDiv(s.data[i], Q(A.shape[ax], 1)))

\* norm(A, dim=last): the Euclidean norm along the last axis, which is dropped.
NormLast(A) ==
    LET n == A.shape[Len(A.shape)]
        RECURSIVE sq(_, _)
        sq(i, k) == IF k = 0 THEN Zero
                    ELSE RAdd(sq(i, k - 1),
                              RMul(A.data[Append(i, k)], A.data[Append(i, k)]))
    IN  MkArray(Front(A.shape), LAMBDA i : SSqrt(sq(i, n)))

\* The entries of an array of surds in row-major order.
Flat(N) == LET ix == IdxSeq(N.shape) IN [k \in 1..Len(ix) |-> N.data[ix[k]]]

RECURSIVE SumSeq(_)
SumSeq(q) == IF q = << >> THEN SZero ELSE SAdd(Head(q), SumSeq(Tail(q)))

\* mean of a flat sequence of surds; the mean of no entries is NaN (0/0).
MeanSeq(q) == IF Len(q) = 0 THEN SNaN ELSE SScale(Q(1, Len(q)), SumSeq(q))

\* x != 0 as floating point decides it: NaN and the infinities are nonzero.
NonZero(x) == ~IsZero(x)
SNonZero(a) == a # SZero

\* ------------------------------------------------------ memory of one call

\* A call works on buffers: "a" and "b" are the caller's predicted and target
\* arrays, "c" is the buffer a copy allocates.  ref binds the function's
\* local names to buffers, so that an in-place write through one name is
\* seen through every name bound to the same buffer.
NoValue == [shape |-> << >>, data |-> << >>]
Caller(P, T) ==
    [ref |-> [predicted |-> "a", target |-> "b", visible |-> "c"],
     buf |-> [a |-> P, b |-> T, c |-> NoValue]]
Read(h, name) == h.buf[h.ref[name]]

\* The bug of binding without copying: dst = src.
CloneAliased(h, src, dst) == [h EXCEPT !.ref[dst] = h.ref[src]]

\* dst = src.clone() / src.copy() / deepcopy(src): a fresh buffer with src's values.
Clone(h, src, dst) ==
    [ref |-> [h.ref EXCEPT ![dst] = "c"],
     buf |-> [h.buf EXCEPT !.c = h.buf[h.ref[src]]]]

\* A[A != 0] = 1 on an array value.
MaskArray(A) ==
    [shape |-> A.shape,
     data |-> Tabulated([i \in DOMAIN A.data |->
                            IF NonZero(A.data[i]) THEN One ELSE A.data[i]])]

\* name[name != 0] = 1: an in-place write to the buffer the name is bound to.
MaskedFill(h, name) == [h EXCEPT !.buf[h.ref[name]] = MaskArray(@)]

\* What a call leaves: the exception raised ("" for none), the value
\* returned, and the caller's two arrays as the call left them.
Return(v, h) == [exc |-> "", val |-> v, predicted |-> h.buf.a, target |-> h.buf.b]
Raise(e, h) == [exc |-> e, val |-> NoValue, predicted |-> h.buf.a, target |-> h.buf.b]

Mul(A, B) == Elementwise(RMul, A, B)
Sub(A, B) == Elementwise(RSub, A, B)
Div(A, B) == Elementwise(RDiv, A, B)

\* ----------------------------------------------------------- loss functions

\* The mode test of mpjpe lost: zero norms are never dropped.
mpjpe_kept_all(norms, mode) == Flat(norms)

\* The mode test of mpjpe inverted: zero norms dropped unless mode is 'eval'.
mpjpe_kept_inverted(norms, mode) ==
    IF mode # "eval" THEN SelectSeq(Flat(norms), SNonZero) ELSE Flat(norms)

\* if mode == 'eval': norms = norms[norms != 0]
mpjpe_kept(norms, mode) ==
    IF mode = "eval" THEN SelectSeq(Flat(norms), SNonZero) ELSE Flat(norms)

\* mpjpe without the visibility mask on the prediction.
mpjpe_unmasked(predicted, target, mode) ==
    LET h0 == Caller(predicted, target)
        norms == NormLast(Sub(predicted, target))
    IN  IF predicted.shape # target.shape THEN Raise("AssertionError", h0)
        ELSE Return(Scalar(MeanSeq(mpjpe_kept(norms, mode))), h0)

mpjpe(predicted, target, mode) ==
    LET h0 == Caller(predicted, target)
        h1 == Clone(h0, "target", "visible")
        h2 == MaskedFill(h1, "visible")
        norms == NormLast(Sub(Mul(Read(h2, "predicted"), Read(h2, "visible")),
                              Read(h2, "target")))
    IN  IF predicted.shape # target.shape THEN Raise("AssertionError", h0)
        ELSE Return(Scalar(MeanSeq(mpjpe_kept(norms, mode))), h2)

\* mpjpe_base without its assertion: numpy broadcasts what it can.
mpjpe_base_unchecked(predicted, target) ==
    LET h0 == Caller(predicted, target)
    IN  IF ~Broadcastable(predicted.shape, target.shape) THEN Raise("RuntimeError", h0)
        ELSE Return(Scalar(MeanSeq(Flat(NormLast(Sub(predicted, target))))), h0)

mpjpe_base(predicted, target) ==
    LET h0 == Caller(predicted, target)
    IN  IF predicted.shape # target.shape THEN Raise("AssertionError", h0)
        ELSE Return(Scalar(MeanSeq(Flat(NormLast(Sub(predicted, target))))), h0)

weighted_mpjpe(predicted, target, w) ==
    LET h0 == Caller(predicted, target)
        h1 == Clone(h0, "target", "visible")
        h2 == MaskedFill(h1, "visible")
        norms == NormLast(Sub(Mul(Read(h2, "predicted"), Read(h2, "visible")),
                              Read(h2, "target")))
    IN  IF predicted.shape # target.shape THEN Raise("AssertionError", h0)
        ELSE IF w.shape[1] # predicted.shape[1] THEN Raise("AssertionError", h0)
        ELSE IF ~Broadcastable(w.shape, norms.shape) THEN Raise("RuntimeError", h2)
        ELSE Return(Scalar(MeanSeq(Flat(Elementwise(SScale, w, norms)))), h2)

\* np.sum(visible[:, :, 0], axis=1) of an (N, J, D) array, kept as (N, 1, 1).
NumKeypoints_at_least_one(visible) ==
    LET RECURSIVE upto(_, _)
        upto(n, j) == IF j = 0 THEN Zero
                      ELSE RAdd(upto(n, j - 1), visible.data[<<n, j, 1>>])
    IN  MkArray(<<visible.shape[1], 1, 1>>,
                LAMBDA i : IF IsZero(upto(i[1], visible.shape[2])) THEN One
                           ELSE upto(i[1], visible.shape[2]))
NumKeypoints(visible) ==
    LET RECURSIVE upto(_, _)
        upto(n, j) == IF j = 0 THEN Zero
                      ELSE RAdd(upto(n, j - 1), visible.data[<<n, j, 1>>])
    IN  MkArray(<<visible.shape[1], 1, 1>>, LAMBDA i : upto(i[1], visible.shape[2]))

\* np.sum(norms, axis=1) / num_keypoints for (N, J) norms: one value per n.
SumOverJoints(norms, n) == SumSeq([j \in 1..norms.shape[2] |-> norms.data[<<n, j>>]])

mpjpe_eval(predicted, target) ==
    LET h0 == Caller(predicted, target)
        h1 == Clone(h0, "target", "visible")
        h2 == MaskedFill(h1, "visible")
        num_keypoints == NumKeypoints(Read(h2, "visible"))
        norms == NormLast(Sub(Mul(Read(h2, "predicted"), Read(h2, "visible")),
                              Read(h2, "target")))
    IN  IF predicted.shape # target.shape THEN Raise("AssertionError", h0)
        ELSE Return(MkArray(<<target.shape[1]>>,
                            LAMBDA i : SScale(RInv(num_keypoints.data[<<i[1], 1, 1>>]),
                                              SumOverJoints(norms, i[1]))),
                    h2)

\* The SVD of p_mpjpe is modelled for one coordinate per joint (D = 1), where
\* H = X0^T Y0 is a 1 x 1 matrix h: U s Vt = h gives s = |h| and
\* R = V U^T = sign(h); the reflection fix multiplies V and s by
\* sign(det R) = sign(h), so R becomes 1 and tr = h, and
\* a = tr * normX / normY = sum(X0 * Y0) / sum(Y0^2) with X0, Y0 the centred
\* (not yet normalised) point sets.  With normX = 0 or normY = 0 the
\* normalised sets are 0/0 = NaN and the SVD of a NaN matrix either raises
\* LinAlgError or yields NaN, as the LAPACK build decides (svd_nan_raises).
p_mpjpe(predicted, target, mode, svd_nan_raises) ==
    LET h0 == Caller(predicted, target)
        h1 == Clone(h0, "target", "visible")
        h2 == MaskedFill(h1, "visible")
        visible == Read(h2, "visible")
        masked == Mul(Read(h2, "predicted"), visible)
        muX == MeanAxisKeep(Read(h2, "target"), 2)
        muY == MeanAxisKeep(masked, 2)
        X0 == Sub(Read(h2, "target"), muX)
        Y0 == Sub(masked, muY)
        sqX == SumAxisKeep(SumAxisKeep(Mul(X0, X0), 2), 3)
        sqY == SumAxisKeep(SumAxisKeep(Mul(Y0, Y0), 2), 3)
        nan(i) == IsZero(sqX.data[i]) \/ IsZero(sqY.data[i])
        XY == SumAxisKeep(Mul(X0, Y0), 2)
        a == MkArray(sqY.shape,
                     LAMBDA i : IF nan(i) THEN NaN ELSE RDiv(XY.data[i], sqY.data[i]))
        t == Sub(muX, Mul(a, muY))
        predicted_aligned == Elementwise(RAdd, Mul(a, Read(h2, "predicted")), t)
        norms == NormLast(Sub(Mul(predicted_aligned, visible), Read(h2, "target")))
    IN  IF predicted.shape # target.shape THEN Raise("AssertionError", h0)
        ELSE IF svd_nan_raises /\ \E i \in Idx(sqX.shape) : nan(i)
             THEN Raise("LinAlgError", h2)
        ELSE IF mode = "visu" THEN Return(norms, h2)
        ELSE Return(Scalar(MeanSeq(Flat(norms))), h2)

n_mpjpe(predicted, target, mode) ==
    LET h0 == Caller(predicted, target)
        h1 == Clone(h0, "target", "visible")
        h2 == MaskedFill(h1, "visible")
        visible == Read(h2, "visible")
        masked == Mul(Read(h2, "predicted"), visible)
        norm_predicted == MeanAxisKeep(SumAxisKeep(Mul(masked, masked), 4), 3)
        norm_target ==
            MeanAxisKeep(SumAxisKeep(Mul(Read(h2, "target"), Read(h2, "predicted")), 4), 3)
        scale == Div(norm_target, norm_predicted)
        inner == mpjpe(Mul(Mul(scale, Read(h2, "predicted")), visible),
                       Read(h2, "target"), "train")
    IN  IF predicted.shape # target.shape THEN Raise("AssertionError", h0)
        \* torch.sum(..., dim=3) of an array with fewer than 4 axes
        ELSE IF Len(target.shape) < 4 THEN Raise("IndexError", h2)
        \* norm_predicted[norm_predicted != 0] is 1-D: torch.mean(..., dim=2) raises
        ELSE IF mode # "eval" THEN Raise("IndexError", h2)
        ELSE [inner EXCEPT !.predicted = h2.buf.a]

n_mpjpe_eval(predicted, target) ==
    LET h0 == Caller(predicted, target)
        h1 == Clone(h0, "target", "visible")
        h2 == MaskedFill(h1, "visible")
        visible == Read(h2, "visible")
        masked == Mul(Read(h2, "predicted"), visible)
        num_keypoints == NumKeypoints(visible)
        norm_predicted ==
            Div(SumAxisKeep(SumAxisKeep(Mul(masked, masked), 3), 2), num_keypoints)
        norm_target ==
            Div(SumAxisKeep(SumAxisKeep(Mul(Read(h2, "target"), Read(h2, "predicted")), 3), 2),
                num_keypoints)
        scale == Div(norm_target, norm_predicted)
        inner == mpjpe_eval(Mul(Mul(scale, Read(h2, "predicted")), visible),
                            Read(h2, "target"))
    IN  IF predicted.shape # target.shape THEN Raise("AssertionError", h0)
        ELSE [inner EXCEPT !.predicted = h2.buf.a]

\* np.diff(A, axis=0)
Diff0(A) ==
    MkArray([A.shape EXCEPT ![1] = @ - 1],
            LAMBDA i : RSub(A.data[[i EXCEPT ![1] = @ + 1]], A.data[i]))

\* mean_velocity_error as the upstream project has it: no visibility mask.
velocity_predicted_unmasked(h) == Diff0(Read(h, "predicted"))

\* velocity_predicted = np.diff(predicted*visible, axis=0)
velocity_predicted(h) == Diff0(Mul(Read(h, "predicted"), Read(h, "visible")))

mean_velocity_error(predicted, target, mode) ==
    LET h0 == Caller(predicted, target)
        h1 == Clone(h0, "target", "visible")
        h2 == MaskedFill(h1, "visible")
        velocity_target == Diff0(Read(h2, "target"))
        norms == NormLast(Sub(velocity_predicted(h2), velocity_target))
    IN  IF predicted.shape # target.shape THEN Raise("AssertionError", h0)
        ELSE IF mode = "visu" THEN Return(norms, h2)
        ELSE Return(Scalar(MeanSeq(Flat(norms))), h2)

\* predicted[:, :, j] of a (B, S, 17, 3) pose tensor: joint j, counted from 0,
\* as a (B, S, 3) array.
JointOf(P, j) ==
    [shape |-> <<P.shape[1], P.shape[2], 3>>,
     data |-> Tabulated([i \in Idx(<<P.shape[1], P.shape[2], 3>>) |->
                            P.data[<<i[1], i[2], j + 1, i[3]>>]])]

\* torch.cross(A, B) of two (B, S, 3) arrays, along the last axis.
Cross(A, B) ==
    [shape |-> A.shape,
     data |-> Tabulated([i \in DOMAIN A.data |->
        LET a(c) == A.data[<<i[1], i[2], c>>]
            b(c) == B.data[<<i[1], i[2], c>>]
            c1 == (i[3] % 3) + 1
            c2 == ((i[3] + 1) % 3) + 1
        IN  RSub(RMul(a(c1), b(c2)), RMul(a(c2), b(c1)))])]

Negated(A) == [shape |-> A.shape, data |-> Tabulated([i \in DOMAIN A.data |-> RNeg(A.data[i])])]

\* The square of torch.norm(A): no dim is given, so the norm is the 2-norm of
\* all the entries of A, over every batch item and frame.
RECURSIVE SumOfSquaresOfSeq(_)
SumOfSquaresOfSeq(q) ==
    IF q = << >> THEN Zero
    ELSE RAdd(RMul(Head(q), Head(q)), SumOfSquaresOfSeq(Tail(q)))
SquaredNormOfAll(A) == SumOfSquaresOfSeq(Flat(A))

\* ||n|| * ||v|| squared, the square of what the products n/||n|| * v/||v||
\* at position i are divided by.
cosine_denominator(n, v, i) == RMul(SquaredNormOfAll(n), SquaredNormOfAll(v))

\* torch.max(x, 0): a NaN stays a NaN.
ClampAtZero(x) == IF SSpecial(x) /\ IsNaN(x[1]) THEN x ELSE IF SSign(x) < 0 THEN SZero ELSE x

\* torch.max(torch.sum(torch.mul(n / torch.norm(n), v / torch.norm(v)), dim=-1), 0)
\* as a (B, S) array: dot / (||n|| ||v||) = dot * sqrt(d) / d with
\* d = ||n||^2 ||v||^2, and 0/0 = NaN when a norm is 0.
BoneAngle(n, v) ==
    [shape |-> Front(n.shape),
     data |-> Tabulated([i \in Idx(Front(n.shape)) |->
        LET dot == RAdd(RAdd(RMul(n.data[<<i[1], i[2], 1>>], v.data[<<i[1], i[2], 1>>]),
                             RMul(n.data[<<i[1], i[2], 2>>], v.data[<<i[1], i[2], 2>>])),
                        RMul(n.data[<<i[1], i[2], 3>>], v.data[<<i[1], i[2], 3>>]))
            d == cosine_denominator(n, v, i)
        IN  ClampAtZero(IF IsZero(d) THEN SNaN ELSE SScale(RDiv(dot, d), SSqrt(d)))])]

angle_error(predicted) ==
    LET nose == JointOf(predicted, 0)
        leye == JointOf(predicted, 1)
        reye == JointOf(predicted, 2)
        lear == JointOf(predicted, 3)
        rear == JointOf(predicted, 4)
        lshoulder == JointOf(predicted, 5)
        rshoulder == JointOf(predicted, 6)
        lelbow == JointOf(predicted, 7)
        relbow == JointOf(predicted, 8)
        lwrist == JointOf(predicted, 9)
        rwrist == JointOf(predicted, 10)
        lhip == JointOf(predicted, 11)
        rhip == JointOf(predicted, 12)
        lknee == JointOf(predicted, 13)
        rknee == JointOf(predicted, 14)
        lfoot == JointOf(predicted, 15)
        rfoot == JointOf(predicted, 16)
        v_rs_ls == Sub(lshoulder, rshoulder)
        v_rh_lh == Sub(rhip, lhip)
        n_ls == Cross(v_rs_ls, Sub(lelbow, lshoulder))
        n_rs == Cross(v_rs_ls, Sub(relbow, rshoulder))
        n_lh == Cross(v_rh_lh, Sub(lknee, lhip))
        n_rh == Cross(v_rh_lh, Sub(rknee, rhip))
        n_le == Negated(Cross(Sub(lear, leye), Sub(nose, leye)))
        n_re == Cross(Sub(nose, reye), Sub(reye, rear))
    IN  [exc |-> "",
         val |-> [up_left_error |-> BoneAngle(n_ls, Sub(lwrist, lelbow)),
                  up_right_error |-> BoneAngle(n_rs, Sub(rwrist, relbow)),
                  low_left_error |-> BoneAngle(n_lh, Sub(lfoot, lknee)),
                  low_right_error |-> BoneAngle(n_rh, Sub(rfoot, rknee)),
                  head_error |-> BoneAngle(n_le, n_re)],
         predicted |-> predicted,
         target |-> NoValue]

\* ------------------------------------------------------------ state machine

VARIABLES
    predicted,  \* the caller's prediction array
    target,     \* the caller's target array
    pc,         \* "ready", "returned", "transformed", "compared"
    call,       \* the last call: function, mode, weights, SVD behaviour
    ret,        \* its outcome: [exc, val]
    first,      \* the first call's arrays and outcome, kept across a transform
    run,        \* the local variables of the script run_with_cfg.py
    disk        \* the files of the script: detections read, checkpoints written

vars == <<predicted, target, pc, call, ret, first, run, disk>>

Coords == {Q(v, 1) : v \in -1..MaxCoord}
Weights == {Q(v, 1) : v \in 0..MaxWeight}

\* (batch, frame, joint, coordinate) shapes of the training tensors and
\* (frame, joint, coordinate) shapes of the evaluation arrays.
Shapes == {<<1, 1, 2, 1>>, <<1, 1, 1, 2>>, <<2, 1, 1, 1>>,
           <<1, 2, 1>>, <<2, 1, 1>>, <<1, 1, 2>>, <<1, 3, 1>>}
\* Pairs of different shapes: broadcastable ones, ones of different rank and
\* ones no broadcast reconciles.
MismatchedShapes == {<< <<1, 1, 2, 1>>, <<1, 1, 1, 1>> >>,
                     << <<1, 1, 1>>, <<1, 2, 1>> >>,
                     << <<1, 2, 1>>, <<1, 1, 2, 1>> >>,
                     << <<1, 3, 1>>, <<1, 2, 1>> >>}
ShapePairs == {<<s, s>> : s \in Shapes} \cup MismatchedShapes

\* The weight shapes a caller may pass for inputs of shape s: the shape of
\* the per-joint errors, one weight per batch item to be stretched over
\* frames and joints, and a wrong batch size.
WeightShapes(s) ==
    {Front(s), [i \in 1..(Len(s) - 1) |-> IF i = 1 THEN s[1] ELSE 1], <<s[1] + 1>>}

NoCall == [fn |-> "", mode |-> "", w |-> NoValue, svd |-> FALSE]
NoOutcome == [exc |-> "", val |-> NoValue]
NoFirst == [predicted |-> NoValue, ret |-> NoOutcome, c |-> 1, d |-> 0]
\* The loss functions are called outside a run of the script.
NoRun == [script |-> ""]
NoDisk == {}

Init ==
    /\ \E sp \in ShapePairs :
           /\ predicted \in ArraysOf(sp[1], Coords)
           /\ target \in ArraysOf(sp[2], Coords)
    /\ pc = "ready"
    /\ call = NoCall
    /\ ret = NoOutcome
    /\ first = NoFirst
    /\ run = NoRun
    /\ disk = NoDisk

\* One call of a loss function on the caller's arrays.  After a transform
\* the caller repeats the call it made before.
DoCall(c, out) ==
    /\ pc \in {"ready", "transformed"}
    /\ pc = "transformed" => c = call
    /\ predicted' = out.predicted
    /\ target' = out.target
    /\ ret' = [exc |-> out.exc, val |-> out.val]
    /\ call' = c
    /\ pc' = IF pc = "ready" THEN "returned" ELSE "compared"
    /\ UNCHANGED first
    /\ UNCHANGED <<run, disk>>

Args(f, m) == [fn |-> f, mode |-> m, w |-> NoValue, svd |-> FALSE]

\* The evaluation functions index three axes (frame, joint, coordinate), the
\* training losses n_mpjpe and weighted_mpjpe get (batch, frame, joint,
\* coordinate) tensors.
Rank3 == predicted.shape # target.shape \/ Len(target.shape) = 3
Rank4 == predicted.shape # target.shape \/ Len(target.shape) = 4

Call_mpjpe ==
    \E m \in {"train", "eval"} :
        DoCall(Args("mpjpe", m), mpjpe(predicted, target, m))

Call_mpjpe_eval ==
    /\ Rank3
    /\ DoCall(Args("mpjpe_eval", ""), mpjpe_eval(predicted, target))

Call_mpjpe_base ==
    DoCall(Args("mpjpe_base", ""), mpjpe_base(predicted, target))

Call_weighted_mpjpe ==
    /\ pc = "ready"
    /\ Rank4
    /\ \E ws \in WeightShapes(predicted.shape) : \E w \in ArraysOf(ws, Weights) :
        DoCall([Args("weighted_mpjpe", "") EXCEPT !.w = w],
               weighted_mpjpe(predicted, target, w))

Call_p_mpjpe ==
    /\ pc \in {"ready", "transformed"}
    /\ Rank3
    /\ predicted.shape = target.shape => target.shape[3] = 1
    /\ \E m \in {"train", "visu"} : \E svd \in BOOLEAN :
           \* after a transform the call is repeated as it was made
           /\ pc = "transformed" => [Args("p_mpjpe", m) EXCEPT !.svd = svd] = call
           \* the two SVD behaviours differ only on a NaN matrix
           /\ svd => p_mpjpe(predicted, target, m, TRUE).exc = "LinAlgError"
           /\ DoCall([Args("p_mpjpe", m) EXCEPT !.svd = svd],
                     p_mpjpe(predicted, target, m, svd))

Call_n_mpjpe ==
    /\ Rank4
    /\ \E m \in {"train", "eval"} :
           DoCall(Args("n_mpjpe", m), n_mpjpe(predicted, target, m))

Call_n_mpjpe_eval ==
    /\ Rank3
    /\ DoCall(Args("n_mpjpe_eval", ""), n_mpjpe_eval(predicted, target))

Call_mean_velocity_error ==
    \E m \in {"train", "visu"} :
        DoCall(Args("mean_velocity_error", m), mean_velocity_error(predicted, target, m))

\* The caller replaces predicted by c * predicted + d (a uniform positive
\* scaling and a translation; with one coordinate per joint the only proper
\* rotation is the identity) before calling the same function again.
Transform ==
    /\ pc = "returned"
    /\ call.fn \in {"p_mpjpe", "n_mpjpe"}
    /\ predicted.shape = target.shape
    /\ call.mode # "visu"
    /\ \E c \in 1..MaxScale : \E d \in 0..MaxShift :
           /\ <<c, d>> # <<1, 0>>
           /\ predicted' = MkArray(predicted.shape,
                                   LAMBDA i : RAdd(RMul(Q(c, 1), predicted.data[i]), Q(d, 1)))
           /\ first' = [predicted |-> predicted, ret |-> ret, c |-> c, d |-> d]
    /\ pc' = "transformed"
    /\ UNCHANGED <<target, call, ret>>
    /\ UNCHANGED <<run, disk>>

Next ==
    \/ Call_mpjpe
    \/ Call_mpjpe_eval
    \/ Call_mpjpe_base
    \/ Call_weighted_mpjpe
    \/ Call_p_mpjpe
    \/ Call_n_mpjpe
    \/ Call_n_mpjpe_eval
    \/ Call_mean_velocity_error
    \/ Transform

Spec == Init /\ [][Next]_vars

\* ------------------------------------------- angle_error on a batch of poses

\* A pose of the 17-joint layout (nose, eyes, ears, shoulders, elbows, wrists,
\* hips, knees, feet; left before right): an upright figure scaled by k whose
\* wrists and feet are bent out of the arm and leg planes by b.
PoseFrame(k, b) ==
    LET base == << <<0, 2, 1 + b>>,
                   <<1, 3, 0>>, <<-1, 3, 0>>, <<2, 3, -1>>, <<-2, 3, -1>>,
                   <<1, 0, 0>>, <<-1, 0, 0>>, <<1, -1, 0>>, <<-1, -1, 0>>,
                   <<2, -1, b>>, <<-2, -1, b>>,
                   <<1, -2, 0>>, <<-1, -2, 0>>, <<1, -3, 0>>, <<-1, -3, 0>>,
                   <<2, -3, b>>, <<-2, -3, b>> >>
    IN  [j \in 1..17 |-> [c \in 1..3 |-> Q(k * base[j][c], 1)]]
PoseFrames == {PoseFrame(k, b) : k \in 0..MaxPoseScale, b \in -1..1}

\* The (B, S, 17, 3) tensors of B * S such frames.
PoseTensors ==
    UNION {{[shape |-> <<bs[1], bs[2], 17, 3>>,
             data |-> [i \in Idx(<<bs[1], bs[2], 17, 3>>) |-> f[<<i[1], i[2]>>][i[3]][i[4]]]] :
                f \in [Idx(bs) -> PoseFrames]} :
           bs \in {<<1, 1>>, <<1, 2>>, <<2, 1>>}}

AngleInit ==
    /\ predicted \in PoseTensors
    /\ target = NoValue
    /\ pc = "ready"
    /\ call = NoCall
    /\ ret = NoOutcome
    /\ first = NoFirst
    /\ run = NoRun
    /\ disk = NoDisk

Call_angle_error ==
    /\ pc = "ready"
    /\ Len(predicted.shape) = 4 /\ predicted.shape[3] = 17
    /\ DoCall(Args("angle_error", ""), angle_error(predicted))

AngleSpec == AngleInit /\ [][Call_angle_error]_vars

\* ------------------------------------- test-time augmentation in evaluate2

\* dad_metadata['keypoints_symmetry']: the left and the right joints, paired
\* by position (indices counted from 0).
joints_left == <<1, 3, 5, 7, 9, 11, 13, 15>>
joints_right == <<2, 4, 6, 8, 10, 12, 14, 16>>

\* A[1, :, dst] = values, one joint of dst after the other (the right-hand
\* side was gathered before: advanced indexing copies).
RECURSIVE ScatterJoints(_, _, _, _)
ScatterJoints(A, dst, values, k) ==
    IF k > Len(dst) THEN A
    ELSE ScatterJoints(
            [A EXCEPT !.data = Tabulated([i \in DOMAIN A.data |->
                IF i[1] = 2 /\ i[3] = dst[k] + 1 THEN values[k][<<i[2], i[4]>>]
                ELSE A.data[i]])],
            dst, values, k + 1)

\* The same assignment reading its right-hand side through a view of A, joint
\* by joint, while A is being written.
RECURSIVE ScatterJointsFromView(_, _, _, _)
ScatterJointsFromView(A, dst, src, k) ==
    IF k > Len(dst) THEN A
    ELSE ScatterJointsFromView(
            [A EXCEPT !.data = Tabulated([i \in DOMAIN A.data |->
                IF i[1] = 2 /\ i[3] = dst[k] + 1 THEN A.data[<<2, i[2], src[k] + 1, i[4]>>]
                ELSE A.data[i]])],
            dst, src, k + 1)

NegateHorizontal(P) ==
    [P EXCEPT !.data = Tabulated([i \in DOMAIN P.data |->
        IF i[1] = 2 /\ i[4] = 1 THEN RNeg(P.data[i]) ELSE P.data[i]])]

undo_flip_from_view(P) ==
    ScatterJointsFromView(NegateHorizontal(P), joints_left \o joints_right,
                          joints_right \o joints_left, 1)

\* predicted_3d_pos[1, :, :, 0] *= -1
\* predicted_3d_pos[1, :, joints_left + joints_right] =
\*     predicted_3d_pos[1, :, joints_right + joints_left]
undo_flip(P) ==
    LET N == NegateHorizontal(P)
        src == joints_right \o joints_left
        gathered == [k \in 1..Len(src) |->
                        [fc \in Idx(<<N.shape[2], N.shape[4]>>) |->
                            N.data[<<2, fc[1], src[k] + 1, fc[2]>>]]]
    IN  ScatterJoints(N, joints_left \o joints_right, gathered, 1)

\* torch.mean(predicted_3d_pos, dim=0, keepdim=True) of the two items.
mean_of_items(P) ==
    [shape |-> [P.shape EXCEPT ![1] = 1],
     data |-> Tabulated([i \in Idx([P.shape EXCEPT ![1] = 1]) |->
        RMul(Q(1, 2), RAdd(P.data[i], P.data[[i EXCEPT ![1] = 2]]))])]

\* The mirror image of a pose as the generators are specified to make it:
\* the horizontal coordinate negated and each left joint exchanged with its
\* right partner.
MirrorPartner(j) ==
    IF \E k \in 1..Len(joints_left) : joints_left[k] = j
    THEN joints_right[CHOOSE k \in 1..Len(joints_left) : joints_left[k] = j]
    ELSE IF \E k \in 1..Len(joints_right) : joints_right[k] = j
    THEN joints_left[CHOOSE k \in 1..Len(joints_right) : joints_right[k] = j]
    ELSE j
MirrorImage(frame) ==
    [j \in 1..17 |-> [c \in 1..3 |->
        IF c = 1 THEN RNeg(frame[MirrorPartner(j - 1) + 1][c])
        ELSE frame[MirrorPartner(j - 1) + 1][c]]]

\* Poses without left-right symmetry: joint j at (a*j + b, j, b).
SkewFrame(a, b) == [j \in 1..17 |-> <<Q(a * (j - 1) + b, 1), Q(j - 1, 1), Q(b, 1)>>]
SkewFrames == {SkewFrame(a, b) : a \in 1..MaxPoseScale, b \in -1..1}

\* The (2, 1, 17, 3) tensor of two frames.
Stack(f0, f1) ==
    [shape |-> <<2, 1, 17, 3>>,
     data |-> [i \in Idx(<<2, 1, 17, 3>>) |-> IF i[1] = 1 THEN f0[i[3]][i[4]] ELSE f1[i[3]][i[4]]]]

\* predicted_3d_pos as the pose model returns it for a batch of a sequence and
\* its mirrored copy: the second item is a pose in the mirrored frame.  first
\* keeps the two poses in the unmirrored frame.
TtaInit ==
    /\ \E f0 \in SkewFrames : \E f1 \in SkewFrames :
          /\ predicted = Stack(f0, MirrorImage(f1))
          /\ first = [NoFirst EXCEPT !.predicted = Stack(f0, f1)]
    /\ target = NoValue
    /\ pc = "ready"
    /\ call = NoCall
    /\ ret = NoOutcome
    /\ run = NoRun
    /\ disk = NoDisk

\* Lines 1039-1041 of evaluate2, once on the batch and once more on its result.
UndoFlip ==
    /\ pc \in {"ready", "unflipped"}
    /\ Len(predicted.shape) = 4 /\ predicted.shape[1] = 2
    /\ predicted' = undo_flip(predicted)
    /\ pc' = IF pc = "ready" THEN "unflipped" ELSE "flipped again"
    /\ UNCHANGED <<target, call, ret, first, run, disk>>

\* Line 1042 of evaluate2.
AverageItems ==
    /\ pc = "unflipped"
    /\ predicted' = mean_of_items(predicted)
    /\ pc' = "averaged"
    /\ UNCHANGED <<target, call, ret, first, run, disk>>

TtaNext == UndoFlip \/ AverageItems
TtaSpec == TtaInit /\ [][TtaNext]_vars

\* --------------------------------------------- the training run of the script

\* cfg.MODEL.LR and cfg.MODEL.LR_DECAY.
LR == Q(1, 1000)
LR_DECAY == Q(1, 2)

\* The configurations of a run: the filter widths (cfg.MODEL.ARCHITECTURE),
\* the number of epochs, the checkpoint frequency and whether a trajectory
\* model is trained on unlabelled data.
Architectures == {<<3, 3, 3>>, <<3, 5>>}
Configs ==
    [ARCHITECTURE : Architectures,
     EPOCHS : 1..MaxEpochs,
     CHECKPOINT_FREQUENCY : 1..MaxFrequency,
     semi_supervised : BOOLEAN]

\* TemporalModel.receptive_field(): one frame plus, for every block,
\* (filter width - 1) times the block's dilation, the dilation of a block
\* being the product of the filter widths before it.
RECURSIVE receptive_field_from(_, _, _)
receptive_field_from(filter_widths, k, dilation) ==
    IF k > Len(filter_widths) THEN 1
    ELSE (filter_widths[k] - 1) * dilation
            + receptive_field_from(filter_widths, k + 1, dilation * filter_widths[k])
receptive_field(filter_widths) == receptive_field_from(filter_widths, 1, 1)

\* pad = (receptive_field - 1) // 2, the frames of context on either side.
pad_unhalved(rf) == rf - 1
pad(rf) == (rf - 1) \div 2

\* The momentum initial * exp(-t * log(initial / final)) of the batch
\* normalisation layers, kept as its exponent t: the value is
\* initial * (final / initial)^t.
initial_momentum == Q(1, 10)
final_momentum == Q(1, 1000)
bn_momentum(epoch, EPOCHS) ==
    [initial |-> initial_momentum, final |-> final_momentum, t |-> Q(epoch, EPOCHS)]
\* The momentum a TemporalModel is constructed with.
default_bn_momentum == bn_momentum(0, 1)

\* A model: its parameters (the state_dict), which optimiser steps change,
\* and the momentum attribute of its batch normalisation layers, which is no
\* part of the state_dict.
NoModel == [params |-> -1, momentum |-> NoValue]
TemporalModel == [params |-> 0, momentum |-> default_bn_momentum]
Adam(rate) == [lr |-> rate, steps |-> 0]
state_dict(model) == [params |-> model.params]
load_state_dict(model, state) == [model EXCEPT !.params = state.params]

\* A ChunkedGenerator: its shuffle state is the seed and the number of
\* batches drawn since; the order of the chunks and their flips in a batch
\* are a function of that state.
ChunkedGenerator(random_seed) == [seed |-> random_seed, draws |-> 0]
NoGenerator == [seed |-> 0, draws |-> -1]
next_batch(g) == <<g.seed, g.draws>>
advance(g) == [g EXCEPT !.draws = @ + 1]

NoCheckpoint == [epoch |-> -1]
\* Python's None, where a dictionary of a checkpoint has no value.
None == [None |-> TRUE]

\* The dictionary torch.save writes at the end of an epoch.
state_to_save_initial_lr(r) ==
    [epoch |-> r.epoch,
     lr |-> LR,
     random_state |-> r.train_generator,
     optimizer |-> r.optimizer,
     model_pos |-> state_dict(r.model_pos_train),
     model_traj |-> IF r.cfg.semi_supervised THEN state_dict(r.model_traj_train) ELSE None,
     random_state_semi |-> IF r.cfg.semi_supervised THEN r.semi_generator ELSE None]
state_to_save(r) ==
    [epoch |-> r.epoch,
     lr |-> r.lr,
     random_state |-> r.train_generator,
     optimizer |-> r.optimizer,
     model_pos |-> state_dict(r.model_pos_train),
     model_traj |-> IF r.cfg.semi_supervised THEN state_dict(r.model_traj_train) ELSE None,
     random_state_semi |-> IF r.cfg.semi_supervised THEN r.semi_generator ELSE None]

\* A process that has just started: nothing is constructed yet.  epochs_run
\* counts the iterations of the epoch loop in this process and batch is the
\* pair of batches of the last training step.
StartedRun(cfg, resume) ==
    [script |-> "train", cfg |-> cfg, resume |-> resume,
     receptive_field |-> 0, pad |-> 0,
     epoch |-> 0, lr |-> Zero, batch_id |-> 0,
     optimizer |-> Adam(Zero),
     model_pos_train |-> NoModel, model_traj_train |-> NoModel,
     train_generator |-> NoGenerator, semi_generator |-> NoGenerator,
     batch |-> <<>>, epochs_run |-> 0]

TrainInit ==
    /\ \E cfg \in Configs : run = StartedRun(cfg, NoCheckpoint)
    /\ disk = NoDisk
    /\ pc = "start"
    /\ predicted = NoValue
    /\ target = NoValue
    /\ call = NoCall
    /\ ret = NoOutcome
    /\ first = NoFirst

lossVars == <<predicted, target, call, ret, first>>

\* Lines 224-345: the models, the optimiser and the generators are built;
\* with cfg.TRAIN.RESUME the position model takes the checkpoint's parameters.
CreateModels ==
    /\ pc = "start"
    /\ run' = [run EXCEPT
                 !.receptive_field = receptive_field(run.cfg.ARCHITECTURE),
                 !.pad = pad(receptive_field(run.cfg.ARCHITECTURE)),
                 !.model_pos_train =
                     IF run.resume # NoCheckpoint
                     THEN load_state_dict(TemporalModel, run.resume.model_pos)
                     ELSE TemporalModel,
                 !.model_traj_train =
                     IF run.cfg.semi_supervised THEN TemporalModel ELSE NoModel,
                 !.lr = LR,
                 !.optimizer = Adam(LR),
                 !.epoch = 0,
                 !.train_generator = ChunkedGenerator(1234),
                 !.semi_generator =
                     IF run.cfg.semi_supervised THEN ChunkedGenerator(4321)
                     ELSE NoGenerator]
    /\ pc' = "created"
    /\ UNCHANGED <<disk, lossVars>>

\* Lines 350-362: with cfg.TRAIN.RESUME the script takes the epoch, the
\* learning rate and, as far as the branches go, the optimiser and generator
\* states of the checkpoint.
Resume ==
    /\ pc = "created"
    /\ run' =
         IF run.resume = NoCheckpoint THEN run
         ELSE LET checkpoint == run.resume
                  with_optimizer == checkpoint.optimizer # None
              IN  [run EXCEPT
                     !.epoch = checkpoint.epoch,
                     !.optimizer = IF with_optimizer THEN checkpoint.optimizer ELSE @,
                     !.train_generator =
                         IF with_optimizer THEN checkpoint.random_state ELSE @,
                     !.lr = checkpoint.lr,
                     !.model_traj_train =
                         IF run.cfg.semi_supervised
                         THEN load_state_dict(@, checkpoint.model_traj)
                         ELSE @,
                     !.semi_generator =
                         IF run.cfg.semi_supervised THEN checkpoint.random_state_semi
                         ELSE @]
    /\ pc' = "loop"
    /\ UNCHANGED <<disk, lossVars>>

\* Line 371 and line 394 or 613: the loop test; an epoch starts with
\* batch_id = 0 and the generators' next_epoch().
loop_continues_inclusive(r) == r.epoch <= r.cfg.EPOCHS
loop_continues(r) == r.epoch < r.cfg.EPOCHS

StartEpoch ==
    /\ pc = "loop"
    /\ loop_continues(run)
    /\ run' = [run EXCEPT !.batch_id = 0, !.epochs_run = @ + 1]
    /\ pc' = "batches"
    /\ UNCHANGED <<disk, lossVars>>

EndTraining ==
    /\ pc = "loop"
    /\ ~loop_continues(run)
    /\ pc' = "done"
    /\ UNCHANGED <<run, disk, lossVars>>

\* The labelled generator yields NumBatches batches in an epoch.
exhausted(r) == r.batch_id >= NumBatches * batch_size

\* Lines 396-588 or 615-671: one iteration over the zip of the two generators
\* (or over the labelled one alone): a batch of each and an optimiser step on
\* the models.
TrainBatch ==
    /\ pc = "batches"
    /\ ~exhausted(run)
    /\ run' = [run EXCEPT
                 !.batch = IF run.cfg.semi_supervised
                           THEN <<next_batch(run.train_generator),
                                  next_batch(run.semi_generator)>>
                           ELSE <<next_batch(run.train_generator)>>,
                 !.train_generator = advance(@),
                 !.semi_generator = IF run.cfg.semi_supervised THEN advance(@) ELSE @,
                 !.optimizer.steps = @ + 1,
                 !.model_pos_train.params = @ + 1,
                 !.model_traj_train.params =
                     IF run.cfg.semi_supervised THEN @ + 1 ELSE @,
                 !.batch_id = @ + batch_size]
    /\ UNCHANGED <<pc, disk, lossVars>>

\* Lines 907-932, reached when the labelled generator is exhausted: the
\* decay of the learning rate and of the momentum, and the checkpoint.
EndEpoch ==
    /\ pc = "batches"
    /\ exhausted(run)
    /\ LET epoch == run.epoch + 1
           momentum == bn_momentum(epoch, run.cfg.EPOCHS)
           r == [run EXCEPT
                   !.lr = RMul(@, LR_DECAY),
                   !.optimizer.lr = RMul(@, LR_DECAY),
                   !.epoch = epoch,
                   !.model_pos_train.momentum = momentum,
                   !.model_traj_train.momentum =
                       IF run.cfg.semi_supervised THEN momentum ELSE @]
       IN  /\ run' = r
           /\ disk' = IF epoch % run.cfg.CHECKPOINT_FREQUENCY = 0
                      THEN {c \in disk : c.epoch # epoch} \cup {state_to_save(r)}
                      ELSE disk
    /\ pc' = "loop"
    /\ UNCHANGED lossVars

\* The run is stopped and the script started again with cfg.TRAIN.RESUME
\* naming a checkpoint file, as written or with its optimiser state removed
\* (a checkpoint for distribution).
Restart ==
    /\ pc \in {"loop", "done"}
    /\ run.resume = NoCheckpoint
    /\ \E c \in disk : \E checkpoint \in {c, [c EXCEPT !.optimizer = None]} :
           run' = StartedRun(run.cfg, checkpoint)
    /\ pc' = "start"
    /\ UNCHANGED <<disk, lossVars>>

TrainNext ==
    \/ CreateModels
    \/ Resume
    \/ StartEpoch
    \/ TrainBatch
    \/ EndEpoch
    \/ EndTraining
    \/ Restart

TrainSpec == TrainInit /\ [][TrainNext]_vars
\* The script runs on: no step that can be taken is put off for ever.
TrainFairSpec == TrainSpec /\ WF_vars(TrainNext)

\* ------------------------------------- the consistency check of the 2D data

\* dataset.subjects() and dataset[subject].keys(), in their order.
Subjects == <<"S1", "S2">>
ActionsOf(subject) == IF subject = "S1" THEN <<"Walking">> ELSE <<"Sitting">>
Range(seq) == {seq[k] : k \in DOMAIN seq}

\* An animation of the dataset: its positions and, for a subject with motion
\* capture, its positions_3d, given by their number of frames.
Animations ==
    {[positions |-> n, positions_3d |-> n] : n \in 1..MaxFrames} \cup {[positions |-> 1]}
Datasets ==
    {[subject \in Range(Subjects) |->
          [action \in Range(ActionsOf(subject)) |-> anim[subject]]] :
        anim \in [Range(Subjects) -> Animations]}

\* The 2D detections: a dictionary of some subjects, each a dictionary of some
\* actions, each an array given by its number of frames.
PartialFunctions(D, R) == UNION {[d -> R] : d \in SUBSET D}
Detections ==
    PartialFunctions(Range(Subjects),
                     PartialFunctions({"Walking", "Sitting"}, 1..(MaxFrames + 1)))

NoError == [type |-> "", message |-> <<>>]
AssertionError(message) == [type |-> "AssertionError", message |-> message]

\* array[:mocap_length], by its number of frames.
shorten_not(frames, mocap_length) == frames
shorten(frames, mocap_length) == IF frames < mocap_length THEN frames ELSE mocap_length

\* The inner loop over the actions of a subject from action k on: the
\* keypoints it leaves and the error it raises.
RECURSIVE check_actions(_, _, _, _)
check_actions(dataset, keypoints, subject, k) ==
    IF k > Len(ActionsOf(subject))
    THEN [keypoints |-> keypoints, raised |-> NoError]
    ELSE
        LET action == ActionsOf(subject)[k]
        IN  IF action \notin DOMAIN keypoints[subject]
            THEN [keypoints |-> keypoints,
                  raised |-> AssertionError(<<"Action", action, "of subject", subject,
                                              "is missing from the 2D detections dataset">>)]
            ELSE IF "positions_3d" \notin DOMAIN dataset[subject][action]
            THEN check_actions(dataset, keypoints, subject, k + 1)
            ELSE
                LET mocap_length == dataset[subject][action].positions_3d
                    shortened ==
                        IF keypoints[subject][action] > mocap_length
                        THEN [keypoints EXCEPT ![subject][action] =
                                                   shorten(@, mocap_length)]
                        ELSE keypoints
                IN  IF ~(keypoints[subject][action] >= mocap_length)
                    THEN [keypoints |-> keypoints, raised |-> AssertionError(<<>>)]
                    ELSE IF shortened[subject][action] # mocap_length
                    THEN [keypoints |-> shortened, raised |-> AssertionError(<<>>)]
                    ELSE check_actions(dataset, shortened, subject, k + 1)

PrepInit ==
    /\ \E dataset \in Datasets : \E positions_2d \in Detections :
          /\ disk = [positions_2d |-> positions_2d]
          /\ run = [script |-> "prepare", dataset |-> dataset,
                    keypoints |-> positions_2d, subject |-> 1, raised |-> NoError]
    /\ pc = "checking"
    /\ predicted = NoValue
    /\ target = NoValue
    /\ call = NoCall
    /\ ret = NoOutcome
    /\ first = NoFirst

\* Lines 96-113: one iteration of the loop over the subjects.
CheckSubject ==
    /\ pc = "checking"
    /\ run.subject <= Len(Subjects)
    /\ LET subject == Subjects[run.subject]
       IN  IF subject \notin DOMAIN run.keypoints
           THEN /\ run' = [run EXCEPT !.raised =
                              AssertionError(<<"Subject", subject,
                                  "is missing from the 2D detections dataset">>)]
                /\ pc' = "failed"
           ELSE LET checked == check_actions(run.dataset, run.keypoints, subject, 1)
                IN  /\ run' = [run EXCEPT
                                 !.keypoints = checked.keypoints,
                                 !.raised = checked.raised,
                                 !.subject = IF checked.raised = NoError THEN @ + 1 ELSE @]
                    /\ pc' = IF checked.raised = NoError THEN "checking" ELSE "failed"
    /\ UNCHANGED <<disk, lossVars>>

\* The loop over the subjects has ended.
EndCheck ==
    /\ pc = "checking"
    /\ run.subject > Len(Subjects)
    /\ pc' = "checked"
    /\ UNCHANGED <<run, disk, lossVars>>

PrepNext == CheckSubject \/ EndCheck
PrepSpec == PrepInit /\ [][PrepNext]_vars

\* ------------------------------------ the trajectory loss of a training step

\* inputs_traj, the (B, S, 1, 3) root positions of a batch, with depths z1
\* and z2 in its two frames, and the trajectory model's prediction for it.
Depths == Coords \cup {NegZero}
RootPositions(z1, z2) ==
    MkArray(<<1, 2, 1, 3>>,
            LAMBDA i : IF i[4] < 3 THEN One ELSE IF i[2] = 1 THEN z1 ELSE z2)
PredictedTrajectories ==
    {MkArray(<<1, 2, 1, 3>>, LAMBDA i : v) : v \in Coords}

\* w = 1 / inputs_traj[:, :, :, 2]
inverse_depth(inputs_traj) ==
    MkArray(Front(inputs_traj.shape),
            LAMBDA i : RInv(inputs_traj.data[Append(i, 3)]))
\* w[w == float("Inf")] = 0
fill_inf(w) ==
    MkArray(w.shape, LAMBDA i : IF w.data[i] = Inf THEN Zero ELSE w.data[i])

TrajInit ==
    /\ \E z1 \in Depths : \E z2 \in Depths : target = RootPositions(z1, z2)
    /\ predicted \in PredictedTrajectories
    /\ pc = "ready"
    /\ call = NoCall
    /\ ret = NoOutcome
    /\ first = NoFirst
    /\ run = NoRun
    /\ disk = NoDisk

\* Lines 440-441: the weights of the trajectory loss.
WeightByInverseDepth ==
    /\ pc = "ready"
    /\ call' = [Args("weighted_mpjpe", "") EXCEPT !.w = fill_inf(inverse_depth(target))]
    /\ pc' = "weighted"
    /\ UNCHANGED <<predicted, target, ret, first, run, disk>>

\* Line 445: loss_traj = weighted_mpjpe(predicted_traj, inputs_traj, w)
TrajectoryLoss ==
    /\ pc = "weighted"
    /\ LET out == weighted_mpjpe(predicted, target, call.w)
       IN  /\ predicted' = out.predicted
           /\ target' = out.target
           /\ ret' = [exc |-> out.exc, val |-> out.val]
    /\ pc' = "returned"
    /\ UNCHANGED <<call, first, run, disk>>

TrajNext == WeightByInverseDepth \/ TrajectoryLoss
TrajSpec == TrajInit /\ [][TrajNext]_vars

\* -------------------------------- the reprojection target of a training step

\* causal_shift = pad if cfg.MODEL.CAUSAL else 0
causal_shift(CAUSAL, padding) == IF CAUSAL THEN padding ELSE 0

\* A chunk of the ChunkedGenerator for the frames start_3d .. end_3d - 1 of a
\* sequence: its 2D window holds the frames
\* start_3d - pad - causal_shift .. end_3d + pad - causal_shift - 1 (frames
\* outside the sequence repeat its edge frames), and the predictions of the
\* model for the window refer to the frames start_3d .. end_3d - 1.
chunk_2d(start_3d, end_3d, padding, shift) ==
    [k \in 1..(end_3d - start_3d + 2 * padding) |-> start_3d - padding - shift + k - 1]
chunk_3d(start_3d, end_3d) == [k \in 1..(end_3d - start_3d) |-> start_3d + k - 1]

\* inputs_2d_semi[:, pad:-pad] if pad > 0 else inputs_2d_semi, on the frames.
target_semi(inputs_2d_semi, padding) ==
    IF padding > 0
    THEN SubSeq(inputs_2d_semi, padding + 1, Len(inputs_2d_semi) - padding)
    ELSE inputs_2d_semi

WindowInit ==
    /\ \E filter_widths \in Architectures \cup {<<1>>, <<3>>} : \E CAUSAL \in BOOLEAN :
       \E start_3d \in 0..MaxStart : \E frames \in 1..MaxChunk :
          run = [script |-> "reproject",
                 pad |-> pad(receptive_field(filter_widths)),
                 causal_shift |-> causal_shift(CAUSAL, pad(receptive_field(filter_widths))),
                 start_3d |-> start_3d, end_3d |-> start_3d + frames,
                 inputs_2d_semi |-> <<>>, predicted_semi |-> <<>>, target_semi |-> <<>>]
    /\ disk = NoDisk
    /\ pc = "start"
    /\ predicted = NoValue
    /\ target = NoValue
    /\ call = NoCall
    /\ ret = NoOutcome
    /\ first = NoFirst

\* Lines 396-429: the unlabelled batch of the iteration and the model's
\* predictions for it.
PredictSemi ==
    /\ pc = "start"
    /\ run' = [run EXCEPT
                 !.inputs_2d_semi = chunk_2d(run.start_3d, run.end_3d, run.pad,
                                             run.causal_shift),
                 !.predicted_semi = chunk_3d(run.start_3d, run.end_3d)]
    /\ pc' = "predicted"
    /\ UNCHANGED <<disk, lossVars>>

\* Lines 494-499: the target of the reprojection loss.
SliceTarget ==
    /\ pc = "predicted"
    /\ run' = [run EXCEPT !.target_semi = target_semi(run.inputs_2d_semi, run.pad)]
    /\ pc' = "sliced"
    /\ UNCHANGED <<disk, lossVars>>

WindowNext == PredictSemi \/ SliceTarget
WindowSpec == WindowInit /\ [][WindowNext]_vars

\* ----------------------------------- the angle penalty of a training step

\* def angle_error(predicted): the names the definition accepts.
angle_error_parameters == {"predicted"}

\* angle_error(<name>, debug=cfg.DEBUG): the keywords every call in the
\* training loop passes.
angle_error_keywords == {"debug"}

\* The calls of angle_error of one iteration, by the name of the tensor they
\* pass: one in a supervised step and in a warm-up step, two in a
\* semi-supervised step after the warm-up.
angle_error_calls(branch) ==
    IF branch = "semi" THEN <<"predicted_semi", "predicted_3d_pos">>
    ELSE <<"predicted_3d_pos">>

\* A call evaluates its arguments, binds them to the parameters of the
\* definition and then runs the body.
call_angle_error(bound, keywords, tensor) ==
    IF bound = "unbound" THEN [exc |-> "NameError", val |-> NoValue]
    ELSE IF ~(keywords \subseteq angle_error_parameters)
         THEN [exc |-> "TypeError", val |-> NoValue]
         ELSE [exc |-> "", val |-> angle_error(tensor).val]

\* An iteration of the training loop with its configuration. The name
\* predicted_3d_pos is unbound in the first iteration and holds the tensor of
\* an earlier iteration afterwards, where an earlier iteration can have
\* assigned it.
PenaltyInit ==
    /\ \E branch \in {"supervised", "warmup", "semi"} :
       \E BONE_SYM \in BOOLEAN : \E ILLEGAL_ANGLE \in BOOLEAN :
       \E bound \in {"unbound", "earlier"} :
          /\ bound = "earlier" => (branch = "supervised" \/ BONE_SYM)
          /\ run = [script |-> "penalty", branch |-> branch, BONE_SYM |-> BONE_SYM,
                    ILLEGAL_ANGLE |-> ILLEGAL_ANGLE,
                    predicted_3d_pos |-> bound, predicted_semi |-> "unbound",
                    passed |-> <<>>]
    /\ predicted \in {t \in PoseTensors : t.shape = <<1, 1, 17, 3>>}
    /\ target = NoValue
    /\ disk = NoDisk
    /\ pc = "batch"
    /\ call = NoCall
    /\ ret = NoOutcome
    /\ first = NoFirst

\* Lines 626 (supervised), 429 and 456 (semi-supervised, predicted_3d_pos only
\* under BONE_SYM and skip) and 495 (predicted_semi, only after the warm-up).
Forward ==
    /\ pc = "batch"
    /\ run' = [run EXCEPT
                 !.predicted_3d_pos =
                     IF run.branch = "supervised" \/ (run.branch = "warmup" /\ run.BONE_SYM)
                     THEN "current" ELSE @,
                 !.predicted_semi = IF run.branch = "semi" THEN "current" ELSE @]
    /\ pc' = "predicted"
    /\ UNCHANGED <<disk, lossVars>>

\* Lines 465-467, 537-564 and 644-646: with ILLEGAL_ANGLE the iteration calls
\* angle_error; the first call that raises ends the run.
AnglePenalty ==
    /\ pc = "predicted"
    /\ LET names == IF run.ILLEGAL_ANGLE THEN angle_error_calls(run.branch) ELSE <<>>
           out == [k \in 1..Len(names) |->
                      call_angle_error(run[names[k]], angle_error_keywords, predicted)]
           failed == {k \in 1..Len(names) : out[k].exc # ""}
           last == IF failed = {} THEN Len(names)
                   ELSE CHOOSE k \in failed : \A l \in failed : k <= l
       IN  /\ run' = [run EXCEPT !.passed = [k \in 1..last |-> run[names[k]]]]
           /\ ret' = IF last = 0 THEN NoOutcome ELSE out[last]
           /\ pc' = IF failed = {} THEN "stepped" ELSE "aborted"
    /\ UNCHANGED <<disk, predicted, target, call, first>>

PenaltyNext == Forward \/ AnglePenalty
PenaltySpec == PenaltyInit /\ [][PenaltyNext]_vars

\* -------------------------------- the global offset of the 3D poses (74-86)

\* An action's 3D sequence: frames of joints, joint 1 the root, with one
\* coordinate per joint.
Positions3D ==
    UNION {[1..n -> [1..2 -> -MaxCoord..MaxCoord]] : n \in 1..MaxFrames}

\* pos_3d[:, 1:] -= pos_3d[:, :1]
remove_global_offset(pos_3d) ==
    [f \in DOMAIN pos_3d |->
        [j \in DOMAIN pos_3d[f] |->
            IF j = 1 THEN pos_3d[f][j] ELSE pos_3d[f][j] - pos_3d[f][1]]]

\* The animation of one action as loaded from the dataset file: the array
\* anim['positions'][0] is one object in memory, and pos_3d and the entries
\* of positions_3d are references to it.
OffsetInit ==
    /\ \E positions \in Positions3D : \E cameras \in 0..MaxCameras :
          /\ disk = [positions |-> positions]
          /\ run = [script |-> "offset", positions |-> positions, cameras |-> cameras,
                    cam |-> 0, positions_3d |-> <<>>, anim_positions_3d |-> <<>>]
    /\ pc = "cameras"
    /\ predicted = NoValue
    /\ target = NoValue
    /\ call = NoCall
    /\ ret = NoOutcome
    /\ first = NoFirst

\* Lines 80-85: one pass of the loop over anim['cameras'].
RemoveOffset ==
    /\ pc = "cameras"
    /\ run.cam < run.cameras
    /\ run' = [run EXCEPT !.positions = remove_global_offset(@),
                          !.positions_3d = Append(@, "positions"),
                          !.cam = @ + 1]
    /\ UNCHANGED <<pc, disk, lossVars>>

\* Line 86: anim['positions_3d'] = positions_3d
StorePositions ==
    /\ pc = "cameras"
    /\ run.cam = run.cameras
    /\ run' = [run EXCEPT !.anim_positions_3d = run.positions_3d]
    /\ pc' = "prepared"
    /\ UNCHANGED <<disk, lossVars>>

OffsetNext == RemoveOffset \/ StorePositions
OffsetSpec == OffsetInit /\ [][OffsetNext]_vars

\* ------------------------------------------ normalisation and fetch (115-193)

\* Action names are sequences of words; action.startswith(a).
startswith(action, a) == Len(a) <= Len(action) /\ SubSeq(action, 1, Len(a)) = a

\* keypoints[subject].keys() of one subject, in the order of the file.
ActionLists ==
    {<< <<"eat">> >>, << <<"eat">>, <<"eat", "1">> >>, << <<"eat", "1">>, <<"eat">> >>,
     << <<"eat">>, <<"walk">> >>, << <<"walk">>, <<"eat">> >>}

\* seq[start:stop:step] for start, stop >= 0 and step >= 1.
Slice(seq, start, stop, step) ==
    LET hi == IF stop < Len(seq) THEN stop ELSE Len(seq)
        n == IF hi > start THEN (hi - start + step - 1) \div step ELSE 0
    IN  [k \in 1..n |-> seq[start + (k - 1) * step + 1]]

\* round(q * subset) for subset = num / den: Python rounds halves to even.
round(num, den) ==
    LET fl == num \div den
        twice == 2 * (num % den)
    IN  IF twice < den THEN fl
        ELSE IF twice > den THEN fl + 1
        ELSE IF fl % 2 = 0 THEN fl ELSE fl + 1

\* deterministic_random(min_value, max_value, data): the values it can take.
deterministic_random(min_value, max_value) == min_value..(max_value - 1)

\* The calls of fetch: (subset, parse_3d_poses) of lines 200, 272 and 276.
FetchCalls == {<<<<1, 1>>, TRUE>>, <<<<1, 2>>, TRUE>>, <<<<1, 1>>, FALSE>>}

\* A value that is not None.
Some(v) == [value |-> v]

\* The frames 0 .. n - 1 of a sequence.
FramesOf(n) == [k \in 1..n |-> k - 1]

\* One subject after the consistency check: per action the 2D detections and,
\* where the animation has 'positions', positions_3d with one entry per
\* camera of the animation, all of the length of the 2D detections; the
\* subject has a camera for each index of its action list, with or without
\* intrinsics.
FetchInit ==
    /\ \E names \in ActionLists :
       \E length \in [DOMAIN names -> 1..MaxFrames] :
       \E copies \in [DOMAIN names -> 0..MaxCameras] :
       \E intrinsic \in [DOMAIN names -> BOOLEAN] :
       \E action_filter \in {None, Some(<< <<"eat">> >>), Some(<< <<"walk">> >>)} :
       \E c \in FetchCalls : \E stride \in 1..2 : \E SEQ_START \in 0..1 :
          run = [script |-> "fetch",
                 actions |-> [k \in DOMAIN names |->
                                 [action |-> names[k],
                                  positions_2d |-> FramesOf(length[k]),
                                  normalised_by |-> None,
                                  positions_3d |->
                                      IF copies[k] = 0 THEN None
                                      ELSE Some([n \in 1..copies[k] |-> FramesOf(length[k])])]],
                 cameras |-> [k \in DOMAIN names |-> [id |-> k - 1, intrinsic |-> intrinsic[k]]],
                 action_filter |-> action_filter, subset |-> c[1], parse_3d_poses |-> c[2],
                 DOWNSAMPLE |-> stride, SEQ_START |-> SEQ_START, SEQ_LENGTH |-> MaxFrames,
                 i |-> 0, out_poses_2d |-> <<>>, out_poses_3d |-> <<>>,
                 out_camera_params |-> <<>>, error |-> ""]
    /\ disk = NoDisk
    /\ pc = "loaded"
    /\ predicted = NoValue
    /\ target = NoValue
    /\ call = NoCall
    /\ ret = NoOutcome
    /\ first = NoFirst

\* Lines 115-121: the keypoints of the action at index i are normalised with
\* the resolution of dataset.cameras()[subject][i].
Normalise ==
    /\ pc = "loaded"
    /\ run' = [run EXCEPT !.actions =
                  [k \in DOMAIN @ |-> [@[k] EXCEPT !.normalised_by = Some(run.cameras[k].id)]]]
    /\ pc' = "normalised"
    /\ UNCHANGED <<disk, lossVars>>

\* Lines 138-170: one pass of the loop over the actions of the subject.  The
\* loop over the one-element list poses_2d leaves i = 0, so cams holds the
\* subject's camera 0.
FetchAction ==
    /\ pc = "normalised"
    /\ run.i < Len(run.actions)
    /\ LET a == run.actions[run.i + 1]
           found == \E n \in DOMAIN run.action_filter.value :
                        startswith(a.action, run.action_filter.value[n])
           poses_2d == <<a.positions_2d>>
           i == Len(poses_2d) - 1
           cams == <<run.cameras[i + 1]>>
           cut(seq) == Slice(seq, run.SEQ_START, run.SEQ_START + run.SEQ_LENGTH, 1)
           with_3d == run.parse_3d_poses /\ a.positions_3d # None
       IN  IF run.action_filter # None /\ ~found
           THEN /\ run' = [run EXCEPT !.i = @ + 1]
                /\ pc' = pc
           ELSE IF with_3d /\ Len(a.positions_3d.value) # Len(poses_2d)
           THEN /\ run' = [run EXCEPT !.error = "AssertionError"]
                /\ pc' = "failed"
           ELSE /\ run' = [run EXCEPT
                             !.i = @ + 1,
                             !.out_poses_2d =
                                 Append(@, [action |-> a.action, frames |-> cut(poses_2d[1])]),
                             !.out_camera_params =
                                 IF cams[1].intrinsic THEN Append(@, [camera |-> cams[1].id])
                                 ELSE @,
                             !.out_poses_3d =
                                 IF with_3d
                                 THEN Append(@, [action |-> a.action,
                                                 frames |-> cut(a.positions_3d.value[1])])
                                 ELSE @]
                /\ pc' = pc
    /\ UNCHANGED <<disk, lossVars>>

\* Lines 172-193: empty lists become None, then the sequences are cut to the
\* subset or downsampled.
Downsample ==
    /\ pc = "normalised"
    /\ run.i = Len(run.actions)
    /\ LET out_camera_params == IF run.out_camera_params = <<>> THEN None
                                ELSE Some(run.out_camera_params)
           out_poses_3d == IF run.out_poses_3d = <<>> THEN None ELSE Some(run.out_poses_3d)
           stride == run.DOWNSAMPLE
           n_frames(seq) == round((Len(seq) \div stride) * run.subset[1], run.subset[2]) * stride
           touched == run.subset[1] < run.subset[2] \/ stride > 1
       IN  IF touched /\ out_poses_3d # None /\ Len(run.out_poses_3d) < Len(run.out_poses_2d)
           THEN /\ run' = [run EXCEPT !.error = "IndexError"]
                /\ pc' = "failed"
           ELSE \E start \in [DOMAIN run.out_poses_2d -> 0..MaxFrames] :
                  /\ \A k \in DOMAIN start :
                        start[k] \in
                            IF run.subset[1] < run.subset[2]
                            THEN deterministic_random(0, Len(run.out_poses_2d[k].frames)
                                                        - n_frames(run.out_poses_2d[k].frames) + 1)
                            ELSE {0}
                  /\ LET stop(k) == IF run.subset[1] < run.subset[2]
                                    THEN start[k] + n_frames(run.out_poses_2d[k].frames)
                                    ELSE Len(run.out_poses_2d[k].frames)
                         step == IF touched THEN stride ELSE 1
                     IN  run' = [run EXCEPT
                                   !.out_camera_params = out_camera_params,
                                   !.out_poses_2d =
                                       Some([k \in DOMAIN @ |->
                                           [@[k] EXCEPT !.frames = Slice(@, start[k], stop(k), step)]]),
                                   !.out_poses_3d =
                                       IF out_poses_3d = None THEN None
                                       ELSE Some([k \in DOMAIN @ |->
                                               [@[k] EXCEPT !.frames =
                                                   Slice(@, start[k], stop(k), step)]])]
                  /\ pc' = "fetched"
    /\ UNCHANGED <<disk, lossVars>>

FetchNext == Normalise \/ FetchAction \/ Downsample
FetchSpec == FetchInit /\ [][FetchNext]_vars

\* ------------------------------------ evaluate on the rendering path

\* np.mean of the entries of a list, and of a list of arrays.
RECURSIVE RSum(_)
RSum(q) == IF q = << >> THEN Zero ELSE RAdd(Head(q), RSum(Tail(q)))
np_mean(q) == IF q = << >> THEN NaN ELSE RDiv(RSum(q), Q(Len(q), 1))
RECURSIVE Entries(_)
Entries(arrays) ==
    IF arrays = << >> THEN << >> ELSE Flat(Head(arrays)) \o Entries(Tail(arrays))

\* The prediction of the model for the one sequence of the generator, after
\* the test-time augmentation and squeeze(0): frames x joints x 3.
Predictions ==
    UNION {{MkArray(<<n, 1, 3>>, LAMBDA i : Q(x[i[1]] * i[3], 1)) :
               x \in [1..n -> 0..MaxCoord]} : n \in 1..MaxLength}

\* The items a, b, c, d = array unpacks: the sub-arrays along the first axis.
items(A) ==
    [k \in 1..A.shape[1] |->
        MkArray(Tail(A.shape), LAMBDA i : A.data[<<k>> \o i])]

RenderInit ==
    /\ \E p \in Predictions : \E nruns \in 1..MaxRuns :
          run = [script |-> "render", predicted_3d_pos |-> p, nruns |-> nruns,
                 run |-> 0, returned |-> None,
                 epoch_loss_3d_pos |-> <<>>, epoch_loss_3d_pos_procrustes |-> <<>>,
                 epoch_loss_3d_pos_scale |-> <<>>, epoch_loss_3d_vel |-> <<>>,
                 e |-> None, prediction |-> None, error |-> ""]
    /\ disk = NoDisk
    /\ pc = "evaluate"
    /\ predicted = NoValue
    /\ target = NoValue
    /\ call = NoCall
    /\ ret = NoOutcome
    /\ first = NoFirst

\* evaluate2 with return_predictions: lines 1025-1045, called at line 1102.
Evaluate2 ==
    /\ pc = "evaluate"
    /\ run.run < run.nruns
    /\ run' = [run EXCEPT !.returned = Some(run.predicted_3d_pos)]
    /\ pc' = "returned"
    /\ UNCHANGED <<disk, lossVars>>

\* Lines 1102-1113: e1, e2, e3, e4 = <the value evaluate2 returned>, the four
\* lists and their means.
Unpack ==
    /\ pc = "returned"
    /\ LET it == items(run.returned.value)
           r == [run EXCEPT
                   !.epoch_loss_3d_pos = Append(@, it[1]),
                   !.epoch_loss_3d_pos_procrustes = Append(@, it[2]),
                   !.epoch_loss_3d_pos_scale = Append(@, it[3]),
                   !.epoch_loss_3d_vel = Append(@, it[4])]
       IN  IF Len(it) # 4
           THEN /\ run' = [run EXCEPT !.error = "ValueError"]
                /\ pc' = "failed"
           ELSE /\ run' = [r EXCEPT
                             !.e = Some([e1 |-> np_mean(Entries(r.epoch_loss_3d_pos)),
                                         e2 |-> np_mean(Entries(r.epoch_loss_3d_pos_procrustes)),
                                         e3 |-> np_mean(Entries(r.epoch_loss_3d_pos_scale)),
                                         ev |-> np_mean(Entries(r.epoch_loss_3d_vel))]),
                             !.run = @ + 1]
                /\ pc' = "evaluate"
    /\ UNCHANGED <<disk, lossVars>>

\* Lines 1121 and 1140: return e1, e2, e3, ev; prediction = evaluate(...).
ReturnErrors ==
    /\ pc = "evaluate"
    /\ run.run = run.nruns
    /\ run' = [run EXCEPT !.prediction = run.e]
    /\ pc' = "rendered"
    /\ UNCHANGED <<disk, lossVars>>

RenderNext == Evaluate2 \/ Unpack \/ ReturnErrors
RenderSpec == RenderInit /\ [][RenderNext]_vars

\* --------------------------------------------- run_evaluation (1233-1287)

\* The keys of all_actions and what evaluate2 reports for each, in mm.
ActionKeys == {<< <<"eat">> >>, << <<"eat">>, <<"walk">> >>, << <<"walk">>, <<"eat">> >>}
Reports == [{"e1", "e2", "e3", "ev"} -> 1..MaxError]

\* round(x, digits) of a number x >= 0; NaN stays NaN.
RECURSIVE Pow10(_)
Pow10(digits) == IF digits = 0 THEN 1 ELSE 10 * Pow10(digits - 1)
round_to(x, digits) ==
    IF ~IsFinite(x) THEN x
    ELSE Q(round(x.n * Pow10(digits), x.d), Pow10(digits))

EvalInit ==
    /\ \E keys \in ActionKeys : \E reports \in [DOMAIN keys -> Reports] :
       \E action_filter \in {None, Some(<< <<"eat">> >>), Some(<< <<"walk">> >>)} :
       \E nruns \in 1..MaxRuns :
          run = [script |-> "evaluate", actions |-> keys, reports |-> reports,
                 action_filter |-> action_filter, nruns |-> nruns, done |-> 0,
                 errors_p1 |-> <<>>, errors_p2 |-> <<>>, errors_p3 |-> <<>>,
                 errors_vel |-> <<>>, printed |-> None]
    /\ disk = NoDisk
    /\ pc = "actions"
    /\ predicted = NoValue
    /\ target = NoValue
    /\ call = NoCall
    /\ ret = NoOutcome
    /\ first = NoFirst

\* Lines 1240-1273: one pass of the loop over actions.keys().  The filter is
\* tested inside the loop over the runs, where continue goes on to the next
\* run.
EvaluateAction ==
    /\ pc = "actions"
    /\ run.done < Len(run.actions)
    /\ LET action_key == run.actions[run.done + 1]
           found == \E n \in DOMAIN run.action_filter.value :
                        startswith(action_key, run.action_filter.value[n])
           skipped == run.action_filter # None /\ ~found
           report == run.reports[run.done + 1]
           errors_i(e) == [i \in 1..(IF skipped THEN 0 ELSE run.nruns) |-> Q(report[e], 1)]
       IN  run' = [run EXCEPT
                     !.errors_p1 = Append(@, np_mean(errors_i("e1"))),
                     !.errors_p2 = Append(@, np_mean(errors_i("e2"))),
                     !.errors_p3 = Append(@, np_mean(errors_i("e3"))),
                     !.errors_vel = Append(@, np_mean(errors_i("ev"))),
                     !.done = @ + 1]
    /\ UNCHANGED <<pc, disk, lossVars>>

\* Lines 1283-1287: the action-wise averages.
PrintAverages ==
    /\ pc = "actions"
    /\ run.done = Len(run.actions)
    /\ run' = [run EXCEPT !.printed =
                  Some([p1 |-> round_to(np_mean(run.errors_p1), 1),
                        p2 |-> round_to(np_mean(run.errors_p2), 1),
                        p3 |-> round_to(np_mean(run.errors_p3), 1),
                        vel |-> round_to(np_mean(run.errors_vel), 2)])]
    /\ pc' = "printed"
    /\ UNCHANGED <<disk, lossVars>>

EvalNext == EvaluateAction \/ PrintAverages
EvalSpec == EvalInit /\ [][EvalNext]_vars

\* ------------------------------------------------------------------- claims

\* What the claims say a result is, computed from the caller's arrays alone.
Returned(f) == pc = "returned" /\ call.fn = f
Positions == Idx(Front(target.shape))
Coordinates == 1..target.shape[Len(target.shape)]
AllZeroTarget(i) == \A c \in Coordinates : IsZero(target.data[Append(i, c)])

RECURSIVE SumOver(_, _)
SumOver(S, f) ==
    IF S = {} THEN SZero
    ELSE LET x == CHOOSE y \in S : TRUE IN SAdd(f[x], SumOver(S \ {x}, f))

RECURSIVE SumOfSquares(_)
SumOfSquares(v) ==
    IF v = << >> THEN Zero ELSE RAdd(RMul(Head(v), Head(v)), SumOfSquares(Tail(v)))

MeanOver(S, f) == IF S = {} THEN SNaN ELSE SScale(Q(1, Cardinality(S)), SumOver(S, f))

\* The prediction with each coordinate whose target entry is 0 replaced by 0.
EntryMasked(i) == IF IsZero(target.data[i]) THEN Zero ELSE predicted.data[i]
\* The prediction with the joints whose target is all 0 replaced by 0.
JointMasked(i) == IF AllZeroTarget(Front(i)) THEN Zero ELSE predicted.data[i]

\* The distance at position i between the entry-masked prediction and the target.
Distance ==
    [i \in Positions |->
        SSqrt(SumOfSquares([c \in Coordinates |->
            RSub(EntryMasked(Append(i, c)), target.data[Append(i, c)])]))]
\* The same with the joint-level mask.
JointDistance ==
    [i \in Positions |->
        SSqrt(SumOfSquares([c \in Coordinates |->
            RSub(JointMasked(Append(i, c)), target.data[Append(i, c)])]))]

\* C1: every loss function called with predicted.shape different from
\* target.shape raises AssertionError and returns no value (nothing is
\* broadcast or truncated).
C1_ShapeMismatchFails ==
    (pc = "returned" /\ predicted.shape # target.shape)
        => ret = [exc |-> "AssertionError", val |-> NoValue]

\* mpjpe_base was called with shapes that numpy would broadcast.
C1_Witness ==
    /\ Returned("mpjpe_base")
    /\ predicted.shape = <<1, 1, 2, 1>>
    /\ target.shape = <<1, 1, 1, 1>>
    /\ ret.exc = "AssertionError"

\* C2: in mpjpe a joint whose target coordinates are all 0 adds nothing to
\* the summed norm, whatever its prediction: the sum of the norms (the mean
\* times the number of norms averaged) is the sum over the other joints.
C2_InvisibleJointAddsNothing ==
    (Returned("mpjpe") /\ ret.exc = "")
        => LET others == {i \in Positions : ~AllZeroTarget(i)}
               kept == IF call.mode = "eval"
                       THEN {i \in others : Distance[i] # SZero}
                       ELSE Positions
           IN  IF kept = {} THEN ret.val = Scalar(SNaN)
               ELSE SScale(Q(Cardinality(kept), 1), ret.val.data[<< >>])
                        = SumOver(others, Distance)

\* mpjpe returned for two joints, one with an all-zero target and a nonzero
\* prediction, the other visible and off its target.
C2_Witness ==
    /\ Returned("mpjpe")
    /\ ret.exc = ""
    /\ target.shape = <<1, 1, 2, 1>>
    /\ AllZeroTarget(<<1, 1, 1>>)
    /\ ~IsZero(predicted.data[<<1, 1, 1, 1>>])
    /\ Distance[<<1, 1, 2>>] # SZero

\* C3: mpjpe(x, x) in its default mode is 0 for every x without zero entries.
C3_SelfDistanceZero ==
    (/\ Returned("mpjpe")
     /\ call.mode = "train"
     /\ predicted = target
     /\ \A i \in DOMAIN target.data : ~IsZero(target.data[i]))
        => ret = [exc |-> "", val |-> Scalar(SZero)]

C3_Witness ==
    /\ Returned("mpjpe")
    /\ call.mode = "train"
    /\ predicted = target
    /\ \A i \in DOMAIN target.data : ~IsZero(target.data[i])
    /\ Cardinality(DOMAIN target.data) = 2
    /\ ret.val = Scalar(SZero)

\* C4: the visibility mask is per joint: a joint with some zero and some
\* nonzero target coordinates keeps every coordinate of its prediction, so
\* mpjpe is the mean distance between the joint-masked prediction and the
\* target.
C4_MaskIsPerJoint ==
    (Returned("mpjpe") /\ call.mode = "train" /\ ret.exc = "")
        => ret.val = Scalar(MeanOver(Positions, JointDistance))

\* C5: mpjpe in mode 'eval' is the mean of the distances over exactly the
\* positions whose distance is nonzero; in any other mode it is the mean
\* over all positions.
C5_EvalDropsZeroDistances ==
    (Returned("mpjpe") /\ predicted.shape = target.shape)
        => LET kept == IF call.mode = "eval"
                       THEN {i \in Positions : Distance[i] # SZero}
                       ELSE Positions
           IN  ret = [exc |-> "", val |-> Scalar(MeanOver(kept, Distance))]

\* mpjpe returned in mode 'eval' with one position at distance 0 and one not.
C5_Witness ==
    /\ Returned("mpjpe")
    /\ call.mode = "eval"
    /\ predicted.shape = target.shape
    /\ \E i \in Positions : Distance[i] = SZero
    /\ \E i \in Positions : Distance[i] # SZero
    /\ ret.exc = ""

\* C6: a call of any of the eight loss functions leaves the caller's
\* predicted and target arrays with the values they had before the call.
C6_CallsArePure ==
    [][pc' \in {"returned", "compared"} => (predicted' = predicted /\ target' = target)]_vars

\* p_mpjpe returned a value for a target with an entry that its mask changes.
C6_Witness ==
    /\ Returned("p_mpjpe")
    /\ ret.exc = ""
    /\ \E i \in DOMAIN target.data : target.data[i] = Q(-1, 1)
    /\ \E i \in DOMAIN predicted.data : ~IsZero(predicted.data[i])

\* C7: weighted_mpjpe raises AssertionError when w's leading dimension is
\* not the batch size, returns no value for a w whose shape is not the shape
\* of the per-joint errors, and otherwise returns the mean of the errors
\* each scaled by its weight.
C7_WeightsNeverBroadcast ==
    (Returned("weighted_mpjpe") /\ predicted.shape = target.shape)
        => IF call.w.shape[1] # predicted.shape[1]
           THEN ret = [exc |-> "AssertionError", val |-> NoValue]
           ELSE IF call.w.shape # Front(target.shape)
           THEN ret.exc # "" /\ ret.val = NoValue
           ELSE ret = [exc |-> "",
                       val |-> Scalar(MeanOver(Positions,
                                  [i \in Positions |-> SScale(call.w.data[i], Distance[i])]))]

\* C8: n_mpjpe(c * predicted, target) returns the value that
\* n_mpjpe(predicted, target) returned, for every c > 0.
C8_ScaleInvariant ==
    (pc = "compared" /\ call.fn = "n_mpjpe" /\ call.mode = "train" /\ first.d = 0)
        => (first.ret.exc = "" /\ ret = first.ret)

\* C9: p_mpjpe(c * predicted + d, target) returns the value that
\* p_mpjpe(predicted, target) returned (stated where both calls return a
\* number, so that no degenerate alignment is involved).
C9_SimilarityInvariant ==
    (/\ pc = "compared"
     /\ call.fn = "p_mpjpe"
     /\ first.ret.exc = "" /\ first.ret.val # Scalar(SNaN)
     /\ ret.exc = "" /\ ret.val # Scalar(SNaN))
        => ret.val = first.ret.val

\* The velocity error at (frame, ...) position i for a prediction P(_).
VelocityPositions == Idx(Front([target.shape EXCEPT ![1] = @ - 1]))
VelocityDistance(P(_)) ==
    [i \in VelocityPositions |->
        SSqrt(SumOfSquares([c \in Coordinates |->
            LET here == Append(i, c)
                next == [here EXCEPT ![1] = @ + 1]
            IN  RSub(RSub(P(next), P(here)),
                     RSub(target.data[next], target.data[here]))]))]
Unmasked(i) == predicted.data[i]

\* C10 as stated: mean_velocity_error applies no visibility masking; its
\* result is the mean norm of the difference of the first differences of
\* the full predicted and the full target arrays.
C10_NoMasking ==
    (Returned("mean_velocity_error") /\ call.mode = "train" /\ ret.exc = "")
        => ret.val = Scalar(MeanOver(VelocityPositions, VelocityDistance(Unmasked)))

\* C10 amended: mean_velocity_error sets to 0 every predicted coordinate
\* whose target entry is 0 before differencing along axis 0 (the target is
\* differenced as it is), so the result does not depend on those coordinates.
C10_PredictionMasked ==
    (Returned("mean_velocity_error") /\ call.mode = "train" /\ ret.exc = "")
        => ret.val = Scalar(MeanOver(VelocityPositions, VelocityDistance(EntryMasked)))

\* mean_velocity_error returned for two frames where the mask changes the
\* prediction.
C10_Witness ==
    /\ Returned("mean_velocity_error")
    /\ call.mode = "train"
    /\ ret.exc = ""
    /\ target.shape[1] = 2
    /\ \E i \in DOMAIN target.data : IsZero(target.data[i]) /\ ~IsZero(predicted.data[i])
    /\ ret.val # Scalar(MeanOver(VelocityPositions, VelocityDistance(Unmasked)))

\* The vectors of one (batch, frame) position p of the pose tensor, as triples.
JointAt(p, j) == [c \in 1..3 |-> predicted.data[<<p[1], p[2], j + 1, c>>]]
VSub(a, b) == [c \in 1..3 |-> RSub(a[c], b[c])]
VDot(a, b) == RAdd(RAdd(RMul(a[1], b[1]), RMul(a[2], b[2])), RMul(a[3], b[3]))
VCross(a, b) ==
    <<RSub(RMul(a[2], b[3]), RMul(a[3], b[2])),
      RSub(RMul(a[3], b[1]), RMul(a[1], b[3])),
      RSub(RMul(a[1], b[2]), RMul(a[2], b[1]))>>
\* The cosine of the angle between a and b, clamped below at 0.
ClampedCosine(a, b) ==
    LET d == RMul(VDot(a, a), VDot(b, b))
        cos == IF IsZero(d) THEN SNaN ELSE SScale(RDiv(VDot(a, b), d), SSqrt(d))
    IN  IF cos # SNaN /\ SSign(cos) < 0 THEN SZero ELSE cos
\* The plane normal and the limb of each of the five scores at position p.
LimbPlanes(p) ==
    LET J(j) == JointAt(p, j)
        shoulders == VSub(J(5), J(6))
        hips == VSub(J(12), J(11))
    IN  [up_left_error |-> <<VCross(shoulders, VSub(J(7), J(5))), VSub(J(9), J(7))>>,
         up_right_error |-> <<VCross(shoulders, VSub(J(8), J(6))), VSub(J(10), J(8))>>,
         low_left_error |-> <<VCross(hips, VSub(J(13), J(11))), VSub(J(15), J(13))>>,
         low_right_error |-> <<VCross(hips, VSub(J(14), J(12))), VSub(J(16), J(14))>>,
         head_error |-> <<VCross(VSub(J(0), J(1)), VSub(J(3), J(1))),
                          VCross(VSub(J(0), J(2)), VSub(J(2), J(4)))>>]
PosePositions == Idx(<<predicted.shape[1], predicted.shape[2]>>)

\* C11: angle_error returns five scores and, at every (batch, frame)
\* position, each score is the cosine between that position's limb vector
\* and that position's plane normal, clamped below at 0 (so it depends on
\* the joints of that position only).
C11_ScoresArePerPosition ==
    Returned("angle_error")
        => /\ ret.exc = ""
           /\ DOMAIN ret.val = {"up_left_error", "up_right_error", "low_left_error",
                                "low_right_error", "head_error"}
           /\ \A s \in DOMAIN ret.val : \A p \in PosePositions :
                LET cos == ClampedCosine(LimbPlanes(p)[s][1], LimbPlanes(p)[s][2])
                IN  \* stated where the position's own vectors are not zero
                    cos # SNaN => ret.val[s].data[p] = cos

\* Item n of a (2, 1, 17, 3) tensor as a frame.
ItemFrame(P, n) == [j \in 1..17 |-> [c \in 1..3 |-> P.data[<<n, 1, j, c>>]]]

\* C12: the mirror transform is an involution: the un-mirroring of evaluate2
\* applied twice returns the tensor exactly, and applied once to a batch
\* whose second item is a mirrored pose it leaves that pose in the unmirrored
\* frame, which is what is then averaged with the first item.
C12_MirrorIsInvolution ==
    /\ pc = "unflipped" => predicted = first.predicted
    /\ pc = "flipped again"
          => predicted = Stack(ItemFrame(first.predicted, 1),
                               MirrorImage(ItemFrame(first.predicted, 2)))
    /\ pc = "averaged"
          => \A i \in DOMAIN predicted.data :
                predicted.data[i] = RMul(Q(1, 2), RAdd(first.predicted.data[i],
                                             first.predicted.data[[i EXCEPT ![1] = 2]]))

\* The batch was un-mirrored twice, and its mirrored item differs from its
\* mirror image.
C12_Witness ==
    /\ pc = "flipped again"
    /\ ItemFrame(predicted, 2) # ItemFrame(first.predicted, 2)
    /\ ItemFrame(predicted, 1) # ItemFrame(predicted, 2)

\* The product of the filter widths before block k and the sum over the
\* blocks of (filter width - 1) times that product.
RECURSIVE WidthsBefore(_, _)
WidthsBefore(filter_widths, k) ==
    IF k = 1 THEN 1 ELSE filter_widths[k - 1] * WidthsBefore(filter_widths, k - 1)
RECURSIVE DilatedWidths(_, _)
DilatedWidths(filter_widths, n) ==
    IF n = 0 THEN 0
    ELSE (filter_widths[n] - 1) * WidthsBefore(filter_widths, n)
            + DilatedWidths(filter_widths, n - 1)
Constructed == run.script = "train" /\ pc # "start"

\* C13 as stated: for the filter widths (3, 3, 3) the receptive field is 13
\* frames, and it is 1 plus the sum over the blocks of (filter width - 1)
\* times the product of the widths before the block.
C13_FieldIsThirteen ==
    Constructed
        => /\ run.receptive_field
                = 1 + DilatedWidths(run.cfg.ARCHITECTURE, Len(run.cfg.ARCHITECTURE))
           /\ run.cfg.ARCHITECTURE = <<3, 3, 3>> => run.receptive_field = 13

\* C13: the receptive field is 1 plus the sum over the blocks of
\* (filter width - 1) times the product of the widths before the block; for
\* the filter widths (3, 3, 3) that is 27 frames, and 13 is the padding
\* (receptive field - 1) // 2 on either side of a frame.
C13_FieldIsTwentySeven ==
    Constructed
        => /\ run.receptive_field
                = 1 + DilatedWidths(run.cfg.ARCHITECTURE, Len(run.cfg.ARCHITECTURE))
           /\ 2 * run.pad + 1 = run.receptive_field
           /\ run.cfg.ARCHITECTURE = <<3, 3, 3>>
                 => run.receptive_field = 27 /\ run.pad = 13

\* The models of a run with filter widths (3, 3, 3) have been built.
C13_Witness ==
    /\ pc = "created"
    /\ run.cfg.ARCHITECTURE = <<3, 3, 3>>
    /\ run.pad = 13

\* The epoch the process started from, the epochs completed so far and the
\* learning rate after n decays.
StartEpochOf(r) == IF r.resume = NoCheckpoint THEN 0 ELSE r.resume.epoch
RECURSIVE Decayed(_)
Decayed(n) == IF n = 0 THEN LR ELSE RMul(Decayed(n - 1), LR_DECAY)
EpochJustEnded == run.script = "train" /\ pc = "loop" /\ run.epochs_run > 0
OptimizerReinitialized == run.resume # NoCheckpoint /\ run.resume.optimizer = None
CheckpointKeys ==
    {"epoch", "lr", "random_state", "optimizer", "model_pos", "model_traj",
     "random_state_semi"}

RECURSIVE Drawn(_, _)
Drawn(g, n) == IF n = 0 THEN g ELSE advance(Drawn(g, n - 1))
BatchesOfUninterruptedRun ==
    run.epoch * NumBatches + (IF pc = "batches" THEN run.batch_id \div batch_size ELSE 0)
InEpochLoop == run.script = "train" /\ pc \in {"loop", "batches", "done"}

\* C15: in a resumed run the generators stand where they stand in the
\* uninterrupted run at the same epoch, so the order of the chunks and the
\* flips are the same, whatever checkpoint the resume path accepted.
C15_ResumeReproducesOrder ==
    InEpochLoop
        => /\ run.train_generator
                = Drawn(ChunkedGenerator(1234), BatchesOfUninterruptedRun)
           /\ run.cfg.semi_supervised
                 => run.semi_generator
                       = Drawn(ChunkedGenerator(4321), BatchesOfUninterruptedRun)

\* C16: while the batches of epoch e are trained on, the batch normalisation
\* momentum of the models is 0.1 * (0.001 / 0.1)^(e / EPOCHS), also in the
\* first epoch after a resume.
C16_MomentumFollowsSchedule ==
    run.script = "train" /\ pc = "batches"
        => /\ run.model_pos_train.momentum = bn_momentum(run.epoch, run.cfg.EPOCHS)
           /\ run.cfg.semi_supervised
                 => run.model_traj_train.momentum
                       = bn_momentum(run.epoch, run.cfg.EPOCHS)

\* C20: every epoch of a run ends, with semi-supervision too, after as many
\* iterations as the labelled generator yields batches, the i-th labelled
\* batch of the epoch being paired with the i-th unlabelled one; and the
\* epoch loop ends, after EPOCHS minus the start epoch iterations.
C20_EpochsTerminate ==
    /\ [](EpochJustEnded => run.batch_id = NumBatches * batch_size)
    /\ [](run.script = "train" /\ pc = "batches" /\ run.batch_id > 0
             => LET i == run.batch_id \div batch_size
                    first_labelled == run.train_generator.draws - i
                    first_unlabelled == run.semi_generator.draws - i
                IN  /\ i <= NumBatches
                    /\ run.batch[1] = <<1234, first_labelled + i - 1>>
                    /\ run.cfg.semi_supervised
                          => run.batch[2] = <<4321, first_unlabelled + i - 1>>)
    /\ [](run.script = "train" /\ pc = "done"
             => run.epochs_run = run.cfg.EPOCHS - StartEpochOf(run))
    /\ (pc = "batches") ~> (pc = "loop")
    /\ []<>(pc = "done")

\* A semi-supervised run of several epochs has ended.
C20_Witness ==
    /\ pc = "done"
    /\ run.cfg.semi_supervised
    /\ run.epochs_run > 1
    /\ Len(run.batch) = 2

\* The 2D detections as loaded, the actions of a subject that have motion
\* capture, and the error message that names a subject or an action.
Loaded == disk.positions_2d
Labelled(subject) ==
    {a \in Range(ActionsOf(subject)) : "positions_3d" \in DOMAIN run.dataset[subject][a]}
MocapLength(subject, a) == run.dataset[subject][a].positions_3d
Names(message, name) == \E k \in DOMAIN message : message[k] = name
Offending == Subjects[run.subject]

\* C17 as stated: a missing subject or action and any mismatch of the frame
\* counts fail with an error that names the subject or action, and no pair
\* with different frame counts is accepted or adjusted.
C17_MismatchFailsFast ==
    /\ pc = "failed" => Names(run.raised.message, Offending)
    /\ pc = "checked"
          => /\ run.keypoints = Loaded
             /\ \A subject \in Range(Subjects) :
                   /\ subject \in DOMAIN Loaded
                   /\ \A a \in Range(ActionsOf(subject)) : a \in DOMAIN Loaded[subject]
                   /\ \A a \in Labelled(subject) :
                         Loaded[subject][a] = MocapLength(subject, a)

\* C17: a subject or an action missing from the 2D detections fails with an
\* AssertionError that names it; 2D detections shorter than the motion
\* capture fail with an AssertionError without message; 2D detections longer
\* than the motion capture are accepted and cut to its length.  After the
\* check every labelled action has as many 2D frames as 3D frames.
C17_ShorterFailsLongerIsCut ==
    /\ pc = "failed"
          => /\ run.raised.type = "AssertionError"
             /\ \/ /\ Offending \notin DOMAIN Loaded
                   /\ run.raised.message
                         = <<"Subject", Offending, "is missing from the 2D detections dataset">>
                \/ /\ Offending \in DOMAIN Loaded
                   /\ \E a \in Range(ActionsOf(Offending)) :
                         /\ a \notin DOMAIN Loaded[Offending]
                         /\ run.raised.message
                               = <<"Action", a, "of subject", Offending,
                                   "is missing from the 2D detections dataset">>
                \/ /\ Offending \in DOMAIN Loaded
                   /\ \E a \in Labelled(Offending) :
                         /\ a \in DOMAIN Loaded[Offending]
                         /\ Loaded[Offending][a] < MocapLength(Offending, a)
                         /\ run.raised.message = <<>>
    /\ pc = "checked"
          => \A subject \in Range(Subjects) :
                /\ subject \in DOMAIN Loaded
                /\ \A a \in Range(ActionsOf(subject)) :
                      /\ a \in DOMAIN Loaded[subject]
                      /\ run.keypoints[subject][a] =
                            IF a \in Labelled(subject)
                            THEN MocapLength(subject, a) ELSE Loaded[subject][a]
                      /\ a \in Labelled(subject)
                            => Loaded[subject][a] >= MocapLength(subject, a)

\* The check has passed with detections that were cut.
C17_Witness ==
    /\ pc = "checked"
    /\ run.keypoints # Loaded

\* C18: the weights handed to the trajectory loss hold no infinite value: the
\* weight of a depth of zero, of either sign, is 0.
C18_NoInfiniteWeight ==
    (call.fn = "weighted_mpjpe" /\ pc \in {"weighted", "returned"}
        /\ target.shape = <<1, 2, 1, 3>>)
        => \A i \in DOMAIN call.w.data :
              /\ IsFinite(call.w.data[i])
              /\ IsZero(target.data[Append(i, 3)]) => call.w.data[i] = Zero

\* Frame n of an (N, J, D) array as an array of one frame, and the frames in
\* which no joint is visible: every target entry of the frame is 0.
FrameOf(A, n) ==
    MkArray(<<1, A.shape[2], A.shape[3]>>, LAMBDA i : A.data[<<n, i[2], i[3]>>])
NoVisibleJoint(n) ==
    \A j \in 1..target.shape[2] : \A c \in 1..target.shape[3] :
        IsZero(target.data[<<n, j, c>>])
EvalOfFrame(n) ==
    IF call.fn = "mpjpe_eval"
    THEN mpjpe_eval(FrameOf(predicted, n), FrameOf(target, n))
    ELSE n_mpjpe_eval(FrameOf(predicted, n), FrameOf(target, n))

\* C19: mpjpe_eval and n_mpjpe_eval raise no error on a frame without visible
\* joints; their result for such a frame is NaN, and their result for every
\* frame is what they return for that frame alone.
C19_EmptyFrameIsNaN ==
    ((Returned("mpjpe_eval") \/ Returned("n_mpjpe_eval"))
        /\ predicted.shape = target.shape)
        => /\ ret.exc = ""
           /\ ret.val.shape = <<target.shape[1]>>
           /\ \A n \in 1..target.shape[1] :
                 /\ NoVisibleJoint(n) => ret.val.data[<<n>>] = SNaN
                 /\ ret.val.data[<<n>>] = EvalOfFrame(n).val.data[<<1>>]

\* n_mpjpe_eval returned for two frames, the first without a visible joint
\* and the second with a result that is a number.
C19_Witness ==
    /\ Returned("n_mpjpe_eval")
    /\ predicted.shape = target.shape
    /\ target.shape[1] = 2
    /\ NoVisibleJoint(1)
    /\ ret.val.data[<<1>>] = SNaN
    /\ ret.val.data[<<2>>] # SNaN

\* C21: the frames of the reprojection target are the frames the predictions
\* refer to, with centred and with causal padding.
C21_TargetAlignedWithPredictions ==
    (run.script = "reproject" /\ pc = "sliced")
        => run.target_semi = run.predicted_semi

\* C22: n_mpjpe in a mode other than 'eval' returns a scalar for every pair
\* of (batch, frame, joint, coordinate) inputs of equal shape: it raises
\* nothing.
C22_TrainModeReturns ==
    (Returned("n_mpjpe") /\ call.mode # "eval"
        /\ predicted.shape = target.shape /\ Len(target.shape) = 4)
        => (ret.exc = "" /\ ret.val.shape = << >>)

\* C23: with ILLEGAL_ANGLE enabled every training step (supervised, warm-up,
\* semi-supervised) calls angle_error with arguments its definition accepts
\* and a prediction computed in the same iteration, so the step gets the five
\* scores and goes on instead of aborting.
C23_PenaltyIsComputed ==
    (run.script = "penalty" /\ pc \in {"stepped", "aborted"} /\ run.ILLEGAL_ANGLE) =>
        /\ pc = "stepped"
        /\ ret.exc = ""
        /\ DOMAIN ret.val = {"up_left_error", "up_right_error", "low_left_error",
                             "low_right_error", "head_error"}
        /\ \A k \in DOMAIN run.passed : run.passed[k] = "current"

\* C24: at the start of every epoch lr equals the learning rate of the
\* optimizer's parameter groups, and both equal the initial rate times
\* lr_decay to the number of epochs completed, in a fresh run and after a
\* resume, with or without an optimizer state in the checkpoint.
C24_RateFollowsSchedule ==
    (run.script = "train" /\ pc = "batches") =>
        /\ run.lr = Decayed(run.epoch)
        /\ run.optimizer.lr = run.lr

\* The joints of frame n with at least one nonzero target coordinate, and the
\* distances mpjpe_eval sums: between the masked prediction and the target.
VisibleJoints(n) ==
    {j \in 1..target.shape[2] :
        \E c \in 1..target.shape[3] : ~IsZero(target.data[<<n, j, c>>])}
EvalNorms == NormLast(Sub(Mul(predicted, MaskArray(target)), target))

\* C25: mpjpe_eval divides the summed joint error of each frame by the number
\* of joints of the frame that have a nonzero target coordinate, the joints
\* whose prediction is not masked out in the same call.
C25_DividesByVisibleJoints ==
    (Returned("mpjpe_eval") /\ predicted.shape = target.shape) =>
        \A n \in 1..target.shape[1] :
            ret.val.data[<<n>>] =
                SScale(RInv(Q(Cardinality(VisibleJoints(n)), 1)), SumOverJoints(EvalNorms, n))

\* C26: after the loop over the cameras every entry of the action's
\* positions_3d holds the loaded sequence with the root position subtracted
\* once from the other joints and the root trajectory unchanged, whatever the
\* number of cameras.
C26_OffsetRemovedOnce ==
    (run.script = "offset" /\ pc = "prepared") =>
        \A i \in DOMAIN run.anim_positions_3d :
            run[run.anim_positions_3d[i]] = remove_global_offset(disk.positions)

\* fetch has returned, and the camera an action's keypoints were normalised
\* with.
Fetched == run.script = "fetch" /\ pc = "fetched"
NormalisedBy(action) ==
    run.actions[CHOOSE k \in DOMAIN run.actions : run.actions[k].action = action]
        .normalised_by.value

\* C27: the camera whose intrinsics fetch returns alongside an action's 2D
\* sequence is the camera whose resolution normalised that action's
\* keypoints, the camera at the action's index in the subject's action list.
C27_IntrinsicsOfNormalisingCamera ==
    (Fetched /\ run.out_camera_params # None
        /\ Len(run.out_camera_params.value) = Len(run.out_poses_2d.value)) =>
        \A i \in DOMAIN run.out_poses_2d.value :
            run.out_camera_params.value[i].camera
                = NormalisedBy(run.out_poses_2d.value[i].action)

\* C28: the lists fetch returns are index-aligned: the 3D list and the camera
\* list, when not None, are as long as the 2D list, and entry i of the 3D list
\* is of the action of entry i of the 2D list, with as many frames.
C28_ListsAreAligned ==
    Fetched =>
        /\ run.out_camera_params # None =>
              Len(run.out_camera_params.value) = Len(run.out_poses_2d.value)
        /\ run.out_poses_3d # None =>
              /\ Len(run.out_poses_3d.value) = Len(run.out_poses_2d.value)
              /\ \A i \in DOMAIN run.out_poses_2d.value :
                    /\ run.out_poses_3d.value[i].action = run.out_poses_2d.value[i].action
                    /\ Len(run.out_poses_3d.value[i].frames)
                           = Len(run.out_poses_2d.value[i].frames)

\* C29: evaluate(generator, return_predictions=True), as the rendering path
\* calls it, returns the predicted pose sequence of shape [frames, joints, 3]
\* for every sequence length and computes no error metrics.
C29_ReturnsPredictions ==
    (run.script = "render" /\ pc \in {"rendered", "failed"}) =>
        /\ pc = "rendered"
        /\ run.prediction = Some(run.predicted_3d_pos)
        /\ run.epoch_loss_3d_pos = <<>> /\ run.epoch_loss_3d_pos_procrustes = <<>>
        /\ run.epoch_loss_3d_pos_scale = <<>> /\ run.epoch_loss_3d_vel = <<>>

\* The actions the filter selects, in the order of the keys, and the mean
\* over them of the per-action mean over the runs of a protocol's error.
SelectedActions ==
    SelectSeq([k \in DOMAIN run.actions |-> k],
              LAMBDA k : \/ run.action_filter = None
                         \/ \E n \in DOMAIN run.action_filter.value :
                               startswith(run.actions[k], run.action_filter.value[n]))
MeanOverSelected(e) ==
    np_mean([s \in DOMAIN SelectedActions |->
                np_mean([i \in 1..run.nruns |-> Q(run.reports[SelectedActions[s]][e], 1)])])

\* C30: an action excluded by the action filter is skipped entirely: the
\* printed action-wise averages of the four protocols are the means over the
\* selected actions only, each a number whenever an action is selected.
C30_AveragesOverSelected ==
    (run.script = "evaluate" /\ pc = "printed" /\ SelectedActions # <<>>) =>
        /\ Len(run.errors_p1) = Len(SelectedActions)
        /\ run.printed.value.p1 = round_to(MeanOverSelected("e1"), 1)
        /\ run.printed.value.p2 = round_to(MeanOverSelected("e2"), 1)
        /\ run.printed.value.p3 = round_to(MeanOverSelected("e3"), 1)
        /\ run.printed.value.vel = round_to(MeanOverSelected("ev"), 2)
        /\ \A e \in {"p1", "p2", "p3", "vel"} : IsFinite(run.printed.value[e])

====
